---- MODULE Spec2Model ----
(***************************************************************************)
(* Screener front end: the saved-query store kept in localStorage by the   *)
(* Save, MyQuery and SearchPage components, the saved-queries API route,   *)
(* the remote screening call of SearchPage and the result view             *)
(* (QueryResult: filter, sort, paginate).                                  *)
(*                                                                         *)
(* JavaScript strings are sequences of one-character strings, so that      *)
(* trim, toString, toLowerCase and includes are computed, not assumed.     *)
(* JavaScript objects are functions from keys to values, so that object    *)
(* spread is function override.                                            *)
(***************************************************************************)
EXTENDS Integers, Sequences, FiniteSets, TLC

VARIABLES
    now,                  \* the reading of Date.now()
    localStorage,         \* the item stored under 'savedStockQueries'
    alertMsg,             \* the alert the last handler raised, "" when none
    MyQuery_mounted,      \* a MyQuery page is open
    MyQuery_savedQueries, \* MyQuery: savedQueries
    Save_mounted,         \* a Save page is open
    queryData,            \* Save: queryData
    name,                 \* Save: name
    description,          \* Save: description
    selectedTags,         \* Save: selectedTags
    Save_savedQueries,    \* Save: savedQueries
    Route_savedQueries,   \* the API route's module-level savedQueries
    response,             \* the last response of the API route
    activeTab,            \* SearchPage: activeTab
    Search_savedQueries,  \* SearchPage: savedQueries
    queryText,            \* SearchPage: queryText
    loading,              \* SearchPage: loading
    Search_filters,       \* SearchPage: filters
    apiResults,           \* SearchPage: apiResults
    inFlight,             \* SearchPage: screening requests awaiting fetch
    issued,               \* number of screening requests issued so far
    searchParams,         \* QueryResult: the query string of the page's URL
    data,                 \* QueryResult: data
    Result_filters,       \* QueryResult: filters
    Result_loading,       \* QueryResult: loading
    sortConfig,           \* QueryResult: sortConfig
    currentPage,          \* QueryResult: currentPage
    Result_fetches,       \* QueryResult: fetches of /api/data awaiting their answer
    fetched,              \* number of fetches of /api/data issued so far
    download,             \* QueryResult: the file the last export downloaded
    sortEngine,           \* the Array.prototype.sort of the browser the page runs in
    pathname              \* the path the browser was last sent to for a result view

storeVars == <<localStorage, MyQuery_mounted, MyQuery_savedQueries, Save_mounted,
               queryData, name, description, selectedTags, Save_savedQueries>>
saveVars == <<Save_mounted, queryData, name, description, selectedTags, Save_savedQueries>>
routeVars == <<Route_savedQueries, response>>
searchVars == <<activeTab, Search_savedQueries, queryText, loading, Search_filters,
                apiResults, inFlight, issued>>
resultVars == <<searchParams, data, Result_filters, Result_loading, sortConfig,
                currentPage, Result_fetches, fetched, download, sortEngine,
                pathname>>
vars == <<now, alertMsg, storeVars, routeVars, searchVars, resultVars>>

----------------------------------------------------------------------------
(* Bounds of the model *)

MaxClock == 2        \* Date.now() ranges over 1..MaxClock
MaxQueries == 2      \* no create once the persisted collection has this many entries
MaxRouteQueries == 1 \* no POST once the route's collection has this many entries
MaxRequests == 2     \* no screening request once this many have been issued
MaxRecords == 21     \* the rows of the largest dataset /api/data answers with
MaxFetches == 2      \* no fetch of /api/data once this many have been issued

----------------------------------------------------------------------------
(* JavaScript values *)

\* null
Null == [type |-> "null"]

Min(a, b) == IF a < b THEN a ELSE b

Last(s) == s[Len(s)]

Front(s) == SubSeq(s, 1, Len(s) - 1)

\* String.prototype.trim: leading and trailing white space removed.
RECURSIVE trimStart(_)
trimStart(s) == IF s # <<>> /\ Head(s) = " " THEN trimStart(Tail(s)) ELSE s

RECURSIVE trimEnd(_)
trimEnd(s) == IF s # <<>> /\ Last(s) = " " THEN trimEnd(Front(s)) ELSE s

trim(s) == trimEnd(trimStart(s))

Digits == <<"0", "1", "2", "3", "4", "5", "6", "7", "8", "9">>

\* Number.prototype.toString of a non-negative integer.
RECURSIVE toString(_)
toString(n) ==
    IF n < 10 THEN <<Digits[n + 1]>>
    ELSE toString(n \div 10) \o <<Digits[(n % 10) + 1]>>

\* Array.prototype.join of a sequence of strings.
RECURSIVE join(_, _)
join(strs, sep) ==
    IF strs = <<>> THEN <<>>
    ELSE IF Len(strs) = 1 THEN strs[1]
    ELSE strs[1] \o sep \o join(Tail(strs), sep)

\* { ...a, ...b }: the keys of both, b's value where both have the key.
Spread(a, b) ==
    [k \in (DOMAIN a) \cup (DOMAIN b) |-> IF k \in DOMAIN b THEN b[k] ELSE a[k]]

\* The item under the storage key: absent, a text that is not JSON, or the
\* JSON text of a value.
NoItem == [kind |-> "none"]

NotJSON == [kind |-> "text"]

JSONstringify(v) == [kind |-> "json", value |-> v]

\* JSON.parse: the value, or a SyntaxError.
JSONparse(text) ==
    IF text.kind = "json" THEN [threw |-> FALSE, value |-> text.value]
    ELSE [threw |-> TRUE]

\* No file has been downloaded.
NoFile == [kind |-> "none"]

\* The sorts a browser may run: insertion of each element into the sorted
\* part from its right end, and V8's, which takes the run the array starts
\* with and inserts the rest by binary search. They differ only when the
\* comparator is not a consistent one, the order then being
\* implementation-defined.
SortEngines == {"insertion", "runs"}

----------------------------------------------------------------------------
(* The inputs the environment supplies *)

PE == <<"P", "/", "E">>

ROCE == <<"R", "O", "C", "E", " ", "%">>

\* What QueryResult.saveQuery captures at clock reading t, filters being a
\* FilterSet as its entries in key order (resultCount is
\* the filtered length, totalCount the dataset's length).
Snapshot(f, sc, t, rc, tc) ==
    [filters |-> f, sortConfig |-> sc, timestamp |-> t, resultCount |-> rc,
     totalCount |-> tc]

\* The decoded 'data' parameter of the Save page's URL: a captured snapshot,
\* or a snapshot to which the URL's author added an id field.
SnapshotInputs(t) ==
    { Snapshot(<< [key |-> PE, value |-> <<"1", "2">>] >>, Null, t, 3, 45),
      Spread([id |-> <<"1">>],
             Snapshot(<<>>, [key |-> ROCE, direction |-> "desc"], t, 45, 45)) }

NoParam == [kind |-> "none"]

BadParam == [kind |-> "text"]

DataParams == {NoParam, BadParam} \cup
              { JSONstringify(s) : s \in UNION { SnapshotInputs(t) : t \in 1..now } }

NameInputs == { <<>>, <<" ", "n", " ">> }

DescriptionInputs == { <<"d", " ">> }

PREDEFINED_TAGS ==
    << "a1", "a2", "a3", "a4", "a5", "a6", "a7", "a8", "a9", "a10",
       "a11", "a12", "a13", "a14", "a15", "a16", "a17", "a18", "a19", "a20",
       "a21", "a22", "a23", "a24", "a25", "a26", "a27", "a28", "a29", "a30" >>

\* The tags the user clicks, among the predefined ones.
TagInputs == { "a7" }

----------------------------------------------------------------------------
(* The saved-query store: what the views read *)

\* loadSavedQueries of MyQuery and Save, on a freshly mounted page
\* (savedQueries starts as []): the parsed item; [] when there is no item
\* or JSON.parse throws.
loadSavedQueries(item) ==
    IF item = NoItem THEN <<>>
    ELSE IF JSONparse(item).threw THEN <<>>
    ELSE JSONparse(item).value

\* savedQueries.filter(q => q.id !== id)
withoutId(queries, id) == SelectSeq(queries, LAMBDA q : q.id # id)

IdsOf(queries) == { queries[i].id : i \in 1..Len(queries) }

----------------------------------------------------------------------------
(* MyQuery *)

\* useEffect(() => loadSavedQueries(), []) of a page that has just mounted.
MyQuery_mount ==
    /\ MyQuery_mounted' = TRUE
    /\ MyQuery_savedQueries' = loadSavedQueries(localStorage)
    /\ alertMsg' = ""
    /\ UNCHANGED <<resultVars, now, localStorage, Save_mounted, queryData, name,
                   description, selectedTags, Save_savedQueries, routeVars, searchVars>>

\* deleteQuery(id), confirmed, from the Delete button of a listed query.
MyQuery_deleteQuery(id) ==
    /\ MyQuery_mounted
    /\ id \in IdsOf(MyQuery_savedQueries)
    /\ localStorage' = JSONstringify(withoutId(MyQuery_savedQueries, id))
    /\ MyQuery_savedQueries' = withoutId(MyQuery_savedQueries, id)
    /\ alertMsg' = ""
    /\ UNCHANGED <<resultVars, now, MyQuery_mounted, Save_mounted, queryData, name,
                   description, selectedTags, Save_savedQueries, routeVars, searchVars>>

----------------------------------------------------------------------------
(* Save *)

QueryWith == <<"Q", "u", "e", "r", "y", " ", "w", "i", "t", "h", " ">>

StockQuery == <<"S", "t", "o", "c", "k", " ", "Q", "u", "e", "r", "y", " ">>

\* new Date().toLocaleDateString(): the calendar date of the clock reading,
\* written with its number.
toLocaleDateString(t) == toString(t)

\* Object.keys(filters).filter(key => filters[key])
filterNames(f) ==
    LET nonEmpty == SelectSeq(f, LAMBDA e : e.value # <<>>)
    IN [i \in 1..Len(nonEmpty) |-> nonEmpty[i].key]

autoName(decoded, t) ==
    IF Len(filterNames(decoded.filters)) > 0
    THEN QueryWith \o join(filterNames(decoded.filters), <<",", " ">>)
    ELSE StockQuery \o toLocaleDateString(t)

\* useEffect on searchParams of a page that has just mounted: the 'data'
\* parameter is decoded into queryData and the name is prefilled; then
\* loadSavedQueries.
Save_mount(dataParam) ==
    /\ Save_mounted' = TRUE
    /\ IF dataParam # NoParam /\ ~JSONparse(dataParam).threw
       THEN /\ queryData' = JSONparse(dataParam).value
            /\ name' = autoName(JSONparse(dataParam).value, now)
       ELSE /\ queryData' = Null
            /\ name' = <<>>
    /\ description' = <<>>
    /\ selectedTags' = <<>>
    /\ Save_savedQueries' = loadSavedQueries(localStorage)
    /\ alertMsg' = ""
    /\ UNCHANGED <<resultVars, now, localStorage, MyQuery_mounted, MyQuery_savedQueries,
                   routeVars, searchVars>>

setName(value) ==
    /\ Save_mounted
    /\ name' = value
    /\ alertMsg' = ""
    /\ UNCHANGED <<resultVars, now, localStorage, MyQuery_mounted, MyQuery_savedQueries,
                   Save_mounted, queryData, description, selectedTags,
                   Save_savedQueries, routeVars, searchVars>>

setDescription(value) ==
    /\ Save_mounted
    /\ description' = value
    /\ alertMsg' = ""
    /\ UNCHANGED <<resultVars, now, localStorage, MyQuery_mounted, MyQuery_savedQueries,
                   Save_mounted, queryData, name, selectedTags, Save_savedQueries,
                   routeVars, searchVars>>

\* Array.prototype.includes
arrayIncludes(s, x) == \E i \in 1..Len(s) : s[i] = x

handleTagToggle(tag) ==
    /\ Save_mounted
    /\ selectedTags' = IF arrayIncludes(selectedTags, tag)
                       THEN SelectSeq(selectedTags, LAMBDA t : t # tag)
                       ELSE Append(selectedTags, tag)
    /\ alertMsg' = ""
    /\ UNCHANGED <<resultVars, now, localStorage, MyQuery_mounted, MyQuery_savedQueries,
                   Save_mounted, queryData, name, description, Save_savedQueries,
                   routeVars, searchVars>>

\* disabled={saving || !name.trim()} of the Save button; saving is false
\* whenever a click can arrive, saveQuery having no await.
saveDisabled == trim(name) = <<>>

\* if (!queryData || !name.trim()) { alert(...); return; }
saveRejected == queryData = Null \/ trim(name) = <<>>

\* { id: Date.now().toString(), ...queryData, name: name.trim(),
\*   description: description.trim(), tags: selectedTags }
newQuery ==
    Spread(Spread([id |-> toString(now)], queryData),
           [name |-> trim(name), description |-> trim(description),
            tags |-> selectedTags])

\* JSON.parse(localStorage.getItem('savedStockQueries') || '[]')
existingQueries ==
    IF localStorage = NoItem THEN JSONparse(JSONstringify(<<>>))
    ELSE JSONparse(localStorage)

\* The page is left: its state is discarded.
Save_unmount ==
    /\ Save_mounted' = FALSE
    /\ queryData' = Null
    /\ name' = <<>>
    /\ description' = <<>>
    /\ selectedTags' = <<>>
    /\ Save_savedQueries' = <<>>

\* deleteQuery of the Save page belongs to a list rendered under
\* showSavedQueries, which nothing sets: no click reaches it.

\* A click on 'Save this query': saveQuery. After a successful save the page
\* is left for /my-query (router.push), whose mounting is MyQuery_mount.
saveQuery ==
    /\ Save_mounted
    /\ ~saveDisabled
    /\ IF saveRejected
       THEN /\ alertMsg' = "Please enter a name for your query"
            /\ UNCHANGED <<localStorage, saveVars>>
       ELSE IF existingQueries.threw
       THEN /\ alertMsg' = "Error saving query. Please try again."
            /\ UNCHANGED <<localStorage, saveVars>>
       ELSE /\ Len(existingQueries.value) < MaxQueries
            /\ localStorage' = JSONstringify(Append(existingQueries.value, newQuery))
            /\ alertMsg' = "Query saved successfully!"
            /\ Save_unmount
    /\ UNCHANGED <<resultVars, now, MyQuery_mounted, MyQuery_savedQueries, routeVars,
                   searchVars>>

----------------------------------------------------------------------------
(* SearchPage, the My Screens tab *)

Tabs == {"Create Screen", "Ready-made", "My Screens"}

MyScreensLimit == 9

\* queries.sort((a, b) => new Date(b.timestamp).getTime() -
\* new Date(a.timestamp).getTime()): most recent first; Array.prototype.sort
\* is stable, so entries of equal timestamp keep their order.
RECURSIVE sortByTimestampDesc(_)
sortByTimestampDesc(queries) ==
    IF queries = <<>> THEN <<>>
    ELSE LET sorted == sortByTimestampDesc(Front(queries))
             q == Last(queries)
             k == Cardinality({ i \in 1..Len(sorted) : sorted[i].timestamp >= q.timestamp })
         IN SubSeq(sorted, 1, k) \o <<q>> \o SubSeq(sorted, k + 1, Len(sorted))

\* Array.prototype.slice(0, n)
slice0(s, n) == SubSeq(s, 1, Min(n, Len(s)))

\* loadSavedQueries of SearchPage: the parsed item, most recent first, cut
\* to nine; [] when there is no item or JSON.parse throws.
Search_loadSavedQueries(item) ==
    IF item = NoItem THEN <<>>
    ELSE IF JSONparse(item).threw THEN <<>>
    ELSE slice0(sortByTimestampDesc(JSONparse(item).value), MyScreensLimit)

\* handleTabClick(tab) and the effect on activeTab, which runs when the tab
\* has changed.
handleTabClick(tab) ==
    /\ activeTab' = tab
    /\ Search_savedQueries' =
          IF tab # activeTab /\ tab = "My Screens"
          THEN Search_loadSavedQueries(localStorage)
          ELSE Search_savedQueries
    /\ alertMsg' = ""
    /\ UNCHANGED <<resultVars, now, storeVars, routeVars, queryText, loading,
                   Search_filters, apiResults, inFlight, issued>>

\* deleteQuery(id), confirmed, from the Delete button of a card: the view's
\* list without id is written, then loadSavedQueries reads it back.
Search_deleteQuery(id) ==
    /\ activeTab = "My Screens"
    /\ id \in IdsOf(Search_savedQueries)
    /\ localStorage' = JSONstringify(withoutId(Search_savedQueries, id))
    /\ Search_savedQueries' =
          Search_loadSavedQueries(JSONstringify(withoutId(Search_savedQueries, id)))
    /\ alertMsg' = ""
    /\ UNCHANGED <<resultVars, now, MyQuery_mounted, MyQuery_savedQueries, saveVars,
                   routeVars, activeTab, queryText, loading, Search_filters,
                   apiResults, inFlight, issued>>

----------------------------------------------------------------------------
(* The saved-queries API route *)

\* The JSON bodies posted to the route.
PostBodies ==
    { [description |-> <<"d">>],
      [name |-> <<>>, description |-> <<"d">>],
      [name |-> <<"n">>, description |-> <<"d">>],
      [name |-> <<" ">>, resultCount |-> 3, totalCount |-> 45] }

\* A test of the name that lets the empty string through.
nameMissing_undefinedOnly(body) == "name" \notin DOMAIN body

\* !name for the destructured name: undefined or ''.
nameMissing(body) == "name" \notin DOMAIN body \/ body.name = <<>>

\* body.key || dflt for a destructured field.
orDefault(body, key, dflt, falsy) ==
    IF key \in DOMAIN body /\ body[key] # falsy THEN body[key] ELSE dflt

Route_newQuery(body) ==
    [id |-> toString(now),
     name |-> body.name,
     description |-> orDefault(body, "description", <<>>, <<>>),
     filters |-> orDefault(body, "filters", <<>>, <<>>),
     sortConfig |-> orDefault(body, "sortConfig", Null, Null),
     resultCount |-> orDefault(body, "resultCount", 0, 0),
     totalCount |-> orDefault(body, "totalCount", 0, 0),
     timestamp |-> now,
     createdAt |-> now]

POST(body) ==
    /\ IF nameMissing(body)
       THEN /\ response' = [status |-> 400, error |-> "Query name is required"]
            /\ UNCHANGED Route_savedQueries
       ELSE /\ Len(Route_savedQueries) < MaxRouteQueries
            /\ Route_savedQueries' = Append(Route_savedQueries, Route_newQuery(body))
            /\ response' = [status |-> 200, message |-> "Query saved successfully"]
    /\ alertMsg' = ""
    /\ UNCHANGED <<resultVars, now, storeVars, searchVars>>

\* DELETE ?id=...
DELETE(id) ==
    /\ Route_savedQueries' = withoutId(Route_savedQueries, id)
    /\ response' = [status |-> 200, message |-> "Query deleted successfully"]
    /\ alertMsg' = ""
    /\ UNCHANGED <<resultVars, now, storeVars, searchVars>>

\* DELETE without an id parameter.
DELETE_noId ==
    /\ response' = [status |-> 400, error |-> "Query ID is required"]
    /\ alertMsg' = ""
    /\ UNCHANGED <<resultVars, now, storeVars, Route_savedQueries, searchVars>>

----------------------------------------------------------------------------
(* The clock *)

Tick ==
    /\ now < MaxClock
    /\ now' = now + 1
    /\ alertMsg' = ""
    /\ UNCHANGED <<storeVars, routeVars, searchVars, resultVars>>

----------------------------------------------------------------------------
(* The saved-query store with its three views *)

\* What the browser holds under the key when the application starts.
InitialItems == {NoItem, NotJSON}

Init ==
    /\ now = 1
    /\ localStorage \in InitialItems
    /\ alertMsg = ""
    /\ MyQuery_mounted = FALSE
    /\ MyQuery_savedQueries = <<>>
    /\ Save_mounted = FALSE
    /\ queryData = Null
    /\ name = <<>>
    /\ description = <<>>
    /\ selectedTags = <<>>
    /\ Save_savedQueries = <<>>
    /\ Route_savedQueries = <<>>
    /\ response = [status |-> 0]
    /\ activeTab = "Create Screen"
    /\ Search_savedQueries = <<>>
    /\ queryText = <<>>
    /\ loading = FALSE
    /\ Search_filters = <<>>
    /\ apiResults = Null
    /\ inFlight = {}
    /\ issued = 0
    /\ searchParams = <<>>
    /\ data = <<>>
    /\ Result_filters = <<>>
    /\ Result_loading = FALSE
    /\ sortConfig = Null
    /\ currentPage = 1
    /\ Result_fetches = {}
    /\ fetched = 0
    /\ download = NoFile
    /\ sortEngine = "insertion"
    /\ pathname = "/"

\* The three views of the store, the Save page saving under the prefilled name.
StoreNext ==
    \/ Tick
    \/ MyQuery_mount
    \/ \E id \in IdsOf(MyQuery_savedQueries) : MyQuery_deleteQuery(id)
    \/ \E dataParam \in DataParams : Save_mount(dataParam)
    \/ saveQuery
    \/ \E tab \in Tabs : handleTabClick(tab)
    \/ \E id \in IdsOf(Search_savedQueries) : Search_deleteQuery(id)

StoreSpec == Init /\ [][StoreNext]_vars

\* The Save page with its whole form, and the list of MyQuery.
FormNext ==
    \/ Tick
    \/ MyQuery_mount
    \/ \E id \in IdsOf(MyQuery_savedQueries) : MyQuery_deleteQuery(id)
    \/ \E dataParam \in DataParams : Save_mount(dataParam)
    \/ \E value \in NameInputs : setName(value)
    \/ \E value \in DescriptionInputs : setDescription(value)
    \/ \E tag \in TagInputs : handleTagToggle(tag)
    \/ saveQuery

FormSpec == Init /\ [][FormNext]_vars

\* The two places a saved query is created, the Save page and the API route,
\* at one clock reading.
CreateNext ==
    \/ \E dataParam \in DataParams : Save_mount(dataParam)
    \/ \E value \in NameInputs : setName(value)
    \/ saveQuery
    \/ \E body \in PostBodies : POST(body)
    \/ \E id \in IdsOf(Route_savedQueries) : DELETE(id)
    \/ DELETE_noId

CreateSpec == Init /\ [][CreateNext]_vars

----------------------------------------------------------------------------
(* Properties of the saved-query store *)

\* list(): the collection a freshly mounted view reads from the store.
Persisted == loadSavedQueries(localStorage)

\* The ids a Delete button is shown for, in MyQuery or in My Screens.
DeletableIds == IdsOf(MyQuery_savedQueries) \cup IdsOf(Search_savedQueries)

\* C1: a confirmed delete(id), in MyQuery or in the My Screens tab, leaves
\* the persisted collection equal to the collection persisted just before
\* it with exactly the entries of that id removed, the others in their
\* order.
C1_DeleteRemovesExactlyId ==
    [][\A id \in DeletableIds :
          (MyQuery_deleteQuery(id) \/ Search_deleteQuery(id))
              => Persisted' = withoutId(Persisted, id)]_vars

\* C2: a create with a non-empty name on the Save page leaves list() equal
\* to the collection persisted before it plus one entry at the end, which
\* carries the trimmed name, the description, the selected tags, the
\* captured filters, sortConfig, resultCount and totalCount, an id and a
\* timestamp.
C2_CreateAppendsEntry ==
    [][(saveQuery /\ queryData # Null /\ trim(name) # <<>>) =>
          /\ Len(Persisted') = Len(Persisted) + 1
          /\ SubSeq(Persisted', 1, Len(Persisted)) = Persisted
          /\ LET entry == Last(Persisted')
             IN /\ entry.name = trim(name)
                /\ entry.description = trim(description)
                /\ entry.tags = selectedTags
                /\ entry.filters = queryData.filters
                /\ entry.sortConfig = queryData.sortConfig
                /\ entry.resultCount = queryData.resultCount
                /\ entry.totalCount = queryData.totalCount
                /\ {"id", "timestamp"} \subseteq DOMAIN entry]_vars

\* C3: a create with an empty name is rejected before any storage action.
\* The store grows only by an entry of non-empty name, saved under a
\* non-empty name; a rejected saveQuery leaves the store as it is; a POST
\* whose name is absent or '' is answered 400 and leaves the route's
\* collection and the store as they are; the route's collection grows only
\* by an entry whose name is not ''.
C3_EmptyNameRejected ==
    [][/\ Len(Persisted') > Len(Persisted) =>
             trim(name) # <<>> /\ Last(Persisted').name = trim(name)
       /\ (saveQuery /\ alertMsg' = "Please enter a name for your query") =>
             UNCHANGED <<localStorage, Route_savedQueries>>
       /\ \A body \in PostBodies :
             (POST(body) /\ ("name" \notin DOMAIN body \/ body.name = <<>>)) =>
                 /\ response'.status = 400
                 /\ UNCHANGED <<localStorage, Route_savedQueries>>
       /\ Len(Route_savedQueries') > Len(Route_savedQueries) =>
             /\ Route_savedQueries' = Append(Route_savedQueries, Last(Route_savedQueries'))
             /\ Last(Route_savedQueries').name # <<>>]_vars

\* A POST without a usable name has been answered 400 while the route and
\* the store each hold an entry.
C3_Witness ==
    /\ response.status = 400
    /\ response.error = "Query name is required"
    /\ Len(Route_savedQueries) = 1
    /\ Len(Persisted) >= 1

\* C4: after any creates and deletes, two creates at one clock reading and
\* a snapshot that carries an id included, the ids of the persisted
\* entries are pairwise distinct.
C4_IdsDistinct ==
    \A i, j \in 1..Len(Persisted) : i # j => Persisted[i].id # Persisted[j].id

\* C5: a mutation writes what it computes from the collection persisted at
\* that moment: a delete in one view discards no entry of another id that
\* is persisted when it runs.
C5_DeleteKeepsOtherEntries ==
    [][\A id \in DeletableIds :
          (MyQuery_deleteQuery(id) \/ Search_deleteQuery(id)) =>
              \A i \in 1..Len(Persisted) :
                  Persisted[i].id # id =>
                      \E j \in 1..Len(Persisted') : Persisted'[j] = Persisted[i]]_vars

\* C6: a stored item that is not JSON counts as the empty collection in
\* every operation: a create with a non-empty name then succeeds and
\* leaves exactly the new entry.
C6_CreateOnCorruptItem ==
    [][(saveQuery /\ localStorage = NotJSON /\ queryData # Null /\ trim(name) # <<>>) =>
          /\ alertMsg' = "Query saved successfully!"
          /\ Len(Persisted') = 1
          /\ Persisted'[1].name = trim(name)]_vars

----------------------------------------------------------------------------
(* SearchPage, the Create Screen tab: the remote screening call *)

\* What the user types into the expression input.
QueryTextInputs == { <<>>, <<" ">>, <<"r", ">", "5">> }

\* The bodies the screening service answers with.
ScreenResults == { [results |-> <<>>], [results |-> <<"TCS">>] }

\* How a fetch ends: a success status with a JSON body, a success status
\* with a body res.json() rejects, a non-success status, or a rejected
\* promise.
Outcomes ==
    { [kind |-> "ok", data |-> d] : d \in ScreenResults } \cup
    { [kind |-> "body"], [kind |-> "status", status |-> 500], [kind |-> "rejected"] }

Pending == [kind |-> "pending"]

setQueryText(value) ==
    /\ activeTab = "Create Screen"
    /\ queryText' = value
    /\ alertMsg' = ""
    /\ UNCHANGED <<resultVars, now, storeVars, routeVars, activeTab, Search_savedQueries, loading,
                   Search_filters, apiResults, inFlight, issued>>

\* sendExpressionQuery up to its await: the validation, setLoading(true)
\* and the fetch.
sendExpressionQuery ==
    IF trim(queryText) = <<>>
    THEN /\ alertMsg' = "Please enter an expression to search"
         /\ UNCHANGED <<loading, inFlight, issued>>
    ELSE /\ issued < MaxRequests
         /\ loading' = TRUE
         /\ inFlight' = inFlight \cup
               { [seq |-> issued + 1, expression |-> queryText, outcome |-> Pending] }
         /\ issued' = issued + 1
         /\ alertMsg' = ""

\* disabled={loading} of the search button and of 'Run this query'.
buttonDisabled == loading

\* A click on the search button.
handleSearch ==
    /\ activeTab = "Create Screen"
    /\ ~buttonDisabled
    /\ IF trim(queryText) = <<>>
       THEN /\ alertMsg' = "Please enter a search query"
            /\ UNCHANGED <<loading, inFlight, issued>>
       ELSE sendExpressionQuery
    /\ UNCHANGED <<resultVars, now, storeVars, routeVars, activeTab, Search_savedQueries, queryText,
                   Search_filters, apiResults>>

\* A click on 'Run this query'.
handleRunQuery ==
    /\ activeTab = "Create Screen"
    /\ ~buttonDisabled
    /\ sendExpressionQuery
    /\ UNCHANGED <<resultVars, now, storeVars, routeVars, activeTab, Search_savedQueries, queryText,
                   Search_filters, apiResults>>

\* The Enter key in the expression input.
handleKeyPress ==
    /\ activeTab = "Create Screen"
    /\ sendExpressionQuery
    /\ UNCHANGED <<resultVars, now, storeVars, routeVars, activeTab, Search_savedQueries, queryText,
                   Search_filters, apiResults>>

\* The service answers a request, or the connection fails.
fetchSettles(r, outcome) ==
    /\ r \in inFlight
    /\ r.outcome = Pending
    /\ inFlight' = (inFlight \ {r}) \cup { [r EXCEPT !.outcome = outcome] }
    /\ alertMsg' = ""
    /\ UNCHANGED <<resultVars, now, storeVars, routeVars, activeTab, Search_savedQueries, queryText,
                   loading, Search_filters, apiResults, issued>>

\* res.ok of the answer and no exception from fetch or res.json().
succeeded(outcome) == outcome.kind = "ok"

\* The message of the caught error.
errorMessage(outcome) ==
    IF outcome.kind = "status" THEN "Error: HTTP error! status: 500"
    ELSE IF outcome.kind = "body" THEN "Error: Unexpected end of JSON input"
    ELSE "Error: Failed to fetch"

\* A catch block that also drops the results shown.
apiResultsAfter_clearsOnError(outcome) ==
    IF succeeded(outcome) THEN outcome.data ELSE Null

\* apiResults after the try block: setApiResults(data) when the call
\* succeeded, nothing otherwise.
apiResultsAfter(outcome) ==
    IF succeeded(outcome) THEN outcome.data ELSE apiResults

\* sendExpressionQuery after its await: try, catch and finally.
sendExpressionQuery_resume(r) ==
    /\ r \in inFlight
    /\ r.outcome # Pending
    /\ inFlight' = inFlight \ {r}
    /\ apiResults' = apiResultsAfter(r.outcome)
    /\ alertMsg' = IF succeeded(r.outcome) THEN "" ELSE errorMessage(r.outcome)
    /\ loading' = FALSE
    /\ UNCHANGED <<resultVars, now, storeVars, routeVars, activeTab, Search_savedQueries, queryText,
                   Search_filters, issued>>

\* The 'Clear all filters' button, shown while there is a query text or a
\* filter.
clearAllFilters ==
    /\ activeTab = "Create Screen"
    /\ queryText # <<>> \/ \E i \in 1..Len(Search_filters) : Search_filters[i].value # <<>>
    /\ queryText' = <<>>
    /\ Search_filters' = <<>>
    /\ apiResults' = Null
    /\ alertMsg' = ""
    /\ UNCHANGED <<resultVars, now, storeVars, routeVars, activeTab, Search_savedQueries, loading,
                   inFlight, issued>>

\* A stored collection of three queries saved from the Save page at the
\* clock readings 1, 2 and 3, as the search page finds it when it opens.
StoredSample ==
    JSONstringify(<<
        Spread([id |-> toString(1)],
               Spread(Snapshot(<< [key |-> PE, value |-> <<"1", "2">>] >>, Null, 1, 3, 45),
                      [name |-> <<"n">>, description |-> <<>>, tags |-> <<>>])),
        Spread([id |-> toString(2)],
               Spread(Snapshot(<<>>, [key |-> ROCE, direction |-> "desc"], 2, 45, 45),
                      [name |-> <<"n">>, description |-> <<"d">>, tags |-> <<"a7">>])),
        Spread([id |-> toString(3)],
               Spread(Snapshot(<<>>, Null, 3, 45, 45),
                      [name |-> <<"m">>, description |-> <<>>, tags |-> <<>>])) >>)

SearchInit ==
    /\ now = 3
    /\ localStorage \in InitialItems \cup {StoredSample}
    /\ alertMsg = ""
    /\ MyQuery_mounted = FALSE
    /\ MyQuery_savedQueries = <<>>
    /\ Save_mounted = FALSE
    /\ queryData = Null
    /\ name = <<>>
    /\ description = <<>>
    /\ selectedTags = <<>>
    /\ Save_savedQueries = <<>>
    /\ Route_savedQueries = <<>>
    /\ response = [status |-> 0]
    /\ activeTab = "Create Screen"
    /\ Search_savedQueries = <<>>
    /\ queryText = <<>>
    /\ loading = FALSE
    /\ Search_filters = <<>>
    /\ apiResults = Null
    /\ inFlight = {}
    /\ issued = 0
    /\ searchParams = <<>>
    /\ data = <<>>
    /\ Result_filters = <<>>
    /\ Result_loading = FALSE
    /\ sortConfig = Null
    /\ currentPage = 1
    /\ Result_fetches = {}
    /\ fetched = 0
    /\ download = NoFile
    /\ sortEngine = "insertion"
    /\ pathname = "/"

SearchNext ==
    \/ \E tab \in Tabs : handleTabClick(tab)
    \/ \E id \in IdsOf(Search_savedQueries) : Search_deleteQuery(id)
    \/ \E value \in QueryTextInputs : setQueryText(value)
    \/ handleSearch
    \/ handleRunQuery
    \/ handleKeyPress
    \/ \E r \in inFlight, outcome \in Outcomes : fetchSettles(r, outcome)
    \/ \E r \in inFlight : sendExpressionQuery_resume(r)
    \/ clearAllFilters

SearchSpec == SearchInit /\ [][SearchNext]_vars

----------------------------------------------------------------------------
(* Properties of the screening call *)

\* C7: while a screening request is pending, no trigger (the search button,
\* 'Run this query', the Enter key) issues a second one: at most one
\* request awaits its answer.
C7_AtMostOnePending ==
    Cardinality({ r \in inFlight : r.outcome = Pending }) <= 1

\* C8: an answer to a request that is no longer the latest issued is
\* discarded: it never sets apiResults. (seq numbers the requests in the
\* order they were issued.)
C8_StaleAnswerDiscarded ==
    [][\A r \in inFlight :
          (sendExpressionQuery_resume(r) /\ r.seq < issued) =>
              apiResults' = apiResults]_vars

\* C9: when a screening call fails (a non-success status, a rejected
\* fetch, an unreadable body), an error message is shown, loading is
\* cleared, no request is issued again, and apiResults, queryText, filters
\* and savedQueries stay as they were.
C9_FailureLeavesState ==
    [][\A r \in inFlight :
          (r.outcome.kind \in {"status", "rejected", "body"} /\ r \notin inFlight') =>
              /\ alertMsg' \in { "Error: HTTP error! status: 500",
                                 "Error: Unexpected end of JSON input",
                                 "Error: Failed to fetch" }
              /\ loading' = FALSE
              /\ issued' = issued
              /\ inFlight' = inFlight \ {r}
              /\ UNCHANGED <<apiResults, queryText, Search_filters, Search_savedQueries>>]_vars

\* A call has just failed while results of an earlier call, a query text
\* and saved queries were on the page.
C9_Witness ==
    /\ alertMsg = "Error: HTTP error! status: 500"
    /\ ~loading
    /\ apiResults # Null
    /\ queryText # <<>>
    /\ Search_savedQueries # <<>>

----------------------------------------------------------------------------
(* QueryResult: the records *)

\* A scalar of a record: a number, a string, or null (a blank cell, under
\* Papa's dynamicTyping).
Num(n) == [type |-> "number", num |-> n]

Str(chars) == [type |-> "string", str |-> chars]

Undefined == [type |-> "undefined"]

SNo == <<"S", ".", "N", "o">>

Name == <<"N", "a", "m", "e">>

\* obj[key] of an object kept as its entries in key order.
get(obj, key) ==
    IF \E i \in 1..Len(obj) : obj[i].key = key
    THEN obj[CHOOSE i \in 1..Len(obj) : obj[i].key = key].value
    ELSE Undefined

\* Object.keys(obj)
keys(obj) == [i \in 1..Len(obj) |-> obj[i].key]

\* obj[key] = value
set(obj, key, value) ==
    IF \E i \in 1..Len(obj) : obj[i].key = key
    THEN [i \in 1..Len(obj) |-> IF obj[i].key = key
                                THEN [key |-> key, value |-> value] ELSE obj[i]]
    ELSE Append(obj, [key |-> key, value |-> value])

UpperCase == <<"A", "B", "C", "D", "E", "F", "G", "H", "I", "J", "K", "L", "M",
               "N", "O", "P", "Q", "R", "S", "T", "U", "V", "W", "X", "Y", "Z">>

LowerCase == <<"a", "b", "c", "d", "e", "f", "g", "h", "i", "j", "k", "l", "m",
               "n", "o", "p", "q", "r", "s", "t", "u", "v", "w", "x", "y", "z">>

\* The lower-case form of each letter.
LowerOf ==
    [c \in { UpperCase[j] : j \in 1..26 } |->
        LowerCase[CHOOSE j \in 1..26 : UpperCase[j] = c]]

\* String.prototype.toLowerCase
toLowerCase(chars) ==
    [i \in 1..Len(chars) |->
        IF chars[i] \in DOMAIN LowerOf THEN LowerOf[chars[i]] ELSE chars[i]]

\* String.prototype.includes
stringIncludes(chars, part) ==
    \E i \in 0..(Len(chars) - Len(part)) : SubSeq(chars, i + 1, i + Len(part)) = part

\* value.toString() of a number or a string.
valueToString(v) ==
    IF v.type = "number"
    THEN (IF v.num < 0 THEN <<"-">> \o toString(-v.num) ELSE toString(v.num))
    ELSE v.str

Names == << <<"T", "C", "S">>, <<"I", "n", "f", "y">>, <<"w", "i", "p", "r", "o">> >>

\* Row i of the dataset: a serial number, a name, a P/E and a ROCE % that
\* is blank in every fourth row.
Row(i) ==
    << [key |-> SNo, value |-> Num(i)],
       [key |-> Name, value |-> Str(Names[(i % 3) + 1])],
       [key |-> PE, value |-> Num(i)],
       [key |-> ROCE, value |-> IF i % 4 = 0 THEN Null ELSE Num((7 * i) % 30)] >>

DataSet(n) == [i \in 1..n |-> Row(i)]

\* The datasets the data route answers with: the file may be empty, short
\* or full.
DataSets == { DataSet(0), DataSet(3), DataSet(MaxRecords) }

\* The query strings of the result page's URL, as their pairs in order.
ParamInputs ==
    { <<>>,
      << [key |-> PE, value |-> <<"1">>] >>,
      << [key |-> Name, value |-> <<"t", "c">>], [key |-> PE, value |-> <<>>] >>,
      << [key |-> <<"x">>, value |-> <<"1">>] >> }

\* searchParams.forEach((value, key) => { urlFilters[key] = value })
RECURSIVE urlFilters(_)
urlFilters(params) ==
    IF params = <<>> THEN <<>>
    ELSE set(urlFilters(Front(params)), Last(params).key, Last(params).value)

----------------------------------------------------------------------------
(* QueryResult: filter, sort, paginate *)

itemsPerPage == 20

\* The test without the lower-casing of the two sides.
matches_caseSensitive(item, f) ==
    \A i \in 1..Len(f) :
        \/ f[i].value = <<>>
        \/ LET itemValue == get(item, f[i].key)
           IN /\ itemValue.type \in {"number", "string"}
              /\ stringIncludes(valueToString(itemValue), f[i].value)

\* The test that holds an empty value against the record like any other.
matches_emptyConstrains(item, f) ==
    \A i \in 1..Len(f) :
        LET itemValue == get(item, f[i].key)
        IN /\ itemValue.type \in {"number", "string"}
           /\ stringIncludes(toLowerCase(valueToString(itemValue)),
                             toLowerCase(f[i].value))

\* The test applyFilters applies to one record.
matches(item, f) ==
    \A i \in 1..Len(f) :
        \/ f[i].value = <<>>
        \/ LET itemValue == get(item, f[i].key)
           IN /\ itemValue.type \in {"number", "string"}
              /\ stringIncludes(toLowerCase(valueToString(itemValue)),
                                toLowerCase(f[i].value))

applyFilters(d, f) == SelectSeq(d, LAMBDA item : matches(item, f))

\* The place of a character in the collation order localeCompare uses:
\* white space and punctuation, then digits, then letters, a lower-case
\* letter just before its upper-case form.
Collation == <<"\n", " ", "-", ",", ".", "\"", "/", "%", "0", "1", "2", "3", "4", "5", "6", "7", "8", "9",
               "a", "A", "b", "B", "c", "C", "d", "D", "e", "E", "f", "F", "g", "G",
               "h", "H", "i", "I", "j", "J", "k", "K", "l", "L", "m", "M", "n", "N",
               "o", "O", "p", "P", "q", "Q", "r", "R", "s", "S", "t", "T", "u", "U",
               "v", "V", "w", "W", "x", "X", "y", "Y", "z", "Z">>

RankOf == [c \in { Collation[i] : i \in 1..Len(Collation) } |->
              CHOOSE i \in 1..Len(Collation) : Collation[i] = c]

rank(c) == RankOf[c]

ranks(chars) == [i \in 1..Len(chars) |-> rank(chars[i])]

\* The sign of the first difference of two sequences of ranks, a proper
\* prefix coming first.
RECURSIVE firstDifference(_, _)
firstDifference(a, b) ==
    IF a = <<>> /\ b = <<>> THEN 0
    ELSE IF a = <<>> THEN -1
    ELSE IF b = <<>> THEN 1
    ELSE IF Head(a) < Head(b) THEN -1
    ELSE IF Head(a) > Head(b) THEN 1
    ELSE firstDifference(Tail(a), Tail(b))

\* a.localeCompare(b): by letters first, case breaking ties.
localeCompare(a, b) ==
    LET primary == firstDifference(ranks(toLowerCase(a)), ranks(toLowerCase(b)))
    IN IF primary # 0 THEN primary ELSE firstDifference(ranks(a), ranks(b))

\* value?.toString() || ''
stringForm(v) == IF v.type \in {"number", "string"} THEN valueToString(v) ELSE <<>>

sign(n) == IF n < 0 THEN -1 ELSE IF n > 0 THEN 1 ELSE 0

\* The comparator without its numeric branch.
compareValues_textOnly(aValue, bValue, direction) ==
    IF direction = "asc"
    THEN localeCompare(stringForm(aValue), stringForm(bValue))
    ELSE localeCompare(stringForm(bValue), stringForm(aValue))

\* The comparator sortData passes to sort, as its sign, on the two values
\* of the sort key.
compareValues(aValue, bValue, direction) ==
    IF aValue.type = "number" /\ bValue.type = "number"
    THEN (IF direction = "asc" THEN sign(aValue.num - bValue.num)
          ELSE sign(bValue.num - aValue.num))
    ELSE (IF direction = "asc"
          THEN localeCompare(stringForm(aValue), stringForm(bValue))
          ELSE localeCompare(stringForm(bValue), stringForm(aValue)))

compare(a, b, sc) == compareValues(get(a, sc.key), get(b, sc.key), sc.direction)

\* Insertion sort: each record moves in front of those it precedes.
insertionSort(d, sc) == SortSeq(d, LAMBDA a, b : compare(a, b, sc) < 0)

Reverse(s) == [i \in 1..Len(s) |-> s[Len(s) + 1 - i]]

\* V8, CountAndMakeRun: the last index of the run d starts with, a strictly
\* descending run or a non-descending one, from index i on.
RECURSIVE runEnd(_, _, _, _)
runEnd(d, sc, isDescending, i) ==
    IF i >= Len(d) THEN i
    ELSE LET order == compare(d[i + 1], d[i], sc)
         IN IF (isDescending /\ order >= 0) \/ (~isDescending /\ order < 0)
            THEN i
            ELSE runEnd(d, sc, isDescending, i + 1)

\* V8, BinaryInsertionSort: where pivot goes among a[left..right-1].
RECURSIVE binarySearch(_, _, _, _, _)
binarySearch(a, pivot, sc, left, right) ==
    IF left >= right THEN left
    ELSE LET mid == left + ((right - left) \div 2)
         IN IF compare(pivot, a[mid], sc) < 0
            THEN binarySearch(a, pivot, sc, left, mid)
            ELSE binarySearch(a, pivot, sc, mid + 1, right)

\* V8, BinaryInsertionSort: a[1..start-1] being in order, the records from
\* start on are inserted one by one.
RECURSIVE binaryInsertionSort(_, _, _)
binaryInsertionSort(a, sc, start) ==
    IF start > Len(a) THEN a
    ELSE LET pos == binarySearch(a, a[start], sc, 1, start)
         IN binaryInsertionSort(
                SubSeq(a, 1, pos - 1) \o <<a[start]>> \o SubSeq(a, pos, start - 1)
                    \o SubSeq(a, start + 1, Len(a)),
                sc, start + 1)

\* V8's sort of an array shorter than 64: the initial run, reversed when it
\* descends, then binary insertion of the rest. (Longer arrays are cut into
\* such runs, which are merged; the result is the same whenever the
\* comparator is a consistent one.)
runsSort(d, sc) ==
    IF Len(d) < 2 THEN d
    ELSE LET isDescending == compare(d[2], d[1], sc) < 0
             n == runEnd(d, sc, isDescending, 2)
             run == IF isDescending
                    THEN Reverse(SubSeq(d, 1, n)) \o SubSeq(d, n + 1, Len(d))
                    ELSE d
         IN binaryInsertionSort(run, sc, n + 1)

\* [...d].sort(comparator); Array.prototype.sort is stable.
sorted(d, sc) ==
    IF sortEngine = "insertion" THEN insertionSort(d, sc) ELSE runsSort(d, sc)

\* sortData ordering by name when there is no SortConfig.
sortData_byNameWhenNull(d, sc) ==
    IF sc = Null THEN sorted(d, [key |-> Name, direction |-> "asc"]) ELSE sorted(d, sc)

sortData(d, sc) == IF sc = Null THEN d ELSE sorted(d, sc)

filteredAndSortedData == sortData(applyFilters(data, Result_filters), sortConfig)

columns == IF Len(data) > 0 THEN keys(data[1]) ELSE <<>>

\* The division rounded down.
totalPages_floor == Len(filteredAndSortedData) \div itemsPerPage

\* Math.ceil(filteredAndSortedData.length / itemsPerPage)
totalPages == (Len(filteredAndSortedData) + itemsPerPage - 1) \div itemsPerPage

\* The start index taken one page too far.
startIndex_pageAhead(page) == page * itemsPerPage

startIndex(page) == (page - 1) * itemsPerPage

endIndex(page) == startIndex(page) + itemsPerPage

\* s.slice(from, to) for indexes that are not negative.
slice(s, from, to) == SubSeq(s, Min(from, Len(s)) + 1, Min(to, Len(s)))

\* The records the table shows when page is the current page.
pageSlice(page) == slice(filteredAndSortedData, startIndex(page), endIndex(page))

currentData == pageSlice(currentPage)

\* The window that is centred on the current page whenever there are more
\* than five pages.
pageNumbers_centred(tp, cp) ==
    [n \in 1..Min(5, tp) |-> IF tp <= 5 THEN n ELSE cp - 3 + n]

\* The window whose last five pages end at the current page.
pageNumbers_endAtCurrent(tp, cp) ==
    [n \in 1..Min(5, tp) |->
        LET i == n - 1
        IN IF tp <= 5 THEN i + 1
           ELSE IF cp <= 3 THEN i + 1
           ELSE IF cp >= tp - 2 THEN cp - 4 + i
           ELSE cp - 2 + i]

\* The page numbers of the pagination bar, in order, for tp pages in all
\* and the current page cp.
pageNumbers(tp, cp) ==
    [n \in 1..Min(5, tp) |->
        LET i == n - 1
        IN IF tp <= 5 THEN i + 1
           ELSE IF cp <= 3 THEN i + 1
           ELSE IF cp >= tp - 2 THEN tp - 4 + i
           ELSE cp - 2 + i]

\* The link shown whenever there are more than five pages.
lastPageLink_whenMany(tp, cp) == tp > 5

\* The ellipsis and the link to the last page are rendered.
lastPageLink(tp, cp) == tp > 5 /\ cp < tp - 2

\* The pages the controls of the bar lead to: the page numbers, the link to
\* the last page, and the next button.
controlsOf(tp, cp) ==
    IF tp > 1
    THEN { pageNumbers(tp, cp)[n] : n \in 1..Min(5, tp) }
         \cup (IF lastPageLink(tp, cp) THEN {tp} ELSE {})
         \cup (IF cp < tp THEN {cp + 1} ELSE {})
    ELSE {}

\* The controls shown: none while the page is loading.
pageControls == IF Result_loading THEN {} ELSE controlsOf(totalPages, currentPage)

\* fetchData up to its await.
fetchData ==
    /\ fetched < MaxFetches
    /\ Result_loading' = TRUE
    /\ Result_fetches' = Result_fetches \cup { [seq |-> fetched + 1, outcome |-> Pending] }
    /\ fetched' = fetched + 1

\* The URL's query string changes: the effect on searchParams sets the
\* filters from it and fetches the data.
Result_navigate(params) ==
    /\ params # searchParams
    /\ searchParams' = params
    /\ Result_filters' = urlFilters(params)
    /\ fetchData
    /\ alertMsg' = ""
    /\ UNCHANGED <<now, storeVars, routeVars, searchVars, download, sortEngine, pathname,
                   data, sortConfig, currentPage>>

\* How a fetch of /api/data ends: the rows of the file, or a rejected promise.
FetchOutcomes == { [kind |-> "ok", data |-> d] : d \in DataSets } \cup { [kind |-> "rejected"] }

Result_fetchSettles(f, outcome) ==
    /\ f \in Result_fetches
    /\ f.outcome = Pending
    /\ Result_fetches' = (Result_fetches \ {f}) \cup { [f EXCEPT !.outcome = outcome] }
    /\ alertMsg' = ""
    /\ UNCHANGED <<now, storeVars, routeVars, searchVars, download, sortEngine, pathname,
                   searchParams, data,
                   Result_filters, Result_loading, sortConfig, currentPage, fetched>>

\* fetchData after its await: setData(result) with the JSON body of the
\* response, whatever its status, unless the fetch threw; then
\* setLoading(false).
fetchData_resume(f) ==
    /\ f \in Result_fetches
    /\ f.outcome # Pending
    /\ Result_fetches' = Result_fetches \ {f}
    /\ data' = IF f.outcome.kind = "rejected" THEN data ELSE f.outcome.data
    /\ Result_loading' = FALSE
    /\ alertMsg' = ""
    /\ UNCHANGED <<now, storeVars, routeVars, searchVars, download, sortEngine, pathname,
                   searchParams, Result_filters,
                   sortConfig, currentPage, fetched>>

\* The column headers that can be clicked: those of the table, which is
\* shown when the page is not loading and has rows to show.
sortableColumns ==
    IF ~Result_loading /\ Len(filteredAndSortedData) > 0
    THEN { columns[i] : i \in 1..Len(columns) }
    ELSE {}

\* The direction handleSort chooses for a click on the header of key.
nextDirection(key) ==
    IF sortConfig # Null /\ sortConfig.key = key /\ sortConfig.direction = "asc"
    THEN "desc" ELSE "asc"

\* A click on a column header of the table.
handleSort(key) ==
    /\ key \in sortableColumns
    /\ sortConfig' = [key |-> key, direction |-> nextDirection(key)]
    /\ alertMsg' = ""
    /\ UNCHANGED <<now, storeVars, routeVars, searchVars, download, sortEngine, pathname,
                   searchParams, data,
                   Result_filters, Result_loading, currentPage, Result_fetches, fetched>>

\* A click on a control of the pagination bar, which is shown when the page
\* is not loading and has more than one page.
handlePageChange(page) ==
    /\ page \in pageControls
    /\ currentPage' = page
    /\ alertMsg' = ""
    /\ UNCHANGED <<now, storeVars, routeVars, searchVars, download, sortEngine, pathname,
                   searchParams, data,
                   Result_filters, Result_loading, sortConfig, Result_fetches, fetched>>

\* value.replace(/"/g, '""')
RECURSIVE doubleQuotes(_)
doubleQuotes(chars) ==
    IF chars = <<>> THEN <<>>
    ELSE (IF chars[1] = "\"" THEN <<"\"", "\"">> ELSE <<chars[1]>>)
             \o doubleQuotes(Tail(chars))

\* The text Array.prototype.join gives an element: nothing for null and
\* undefined.
joinText(v) == IF v.type \in {"number", "string"} THEN valueToString(v) ELSE <<>>

\* The test for quoting that looks for a comma only.
needsQuotes_commaOnly(value) ==
    value.type = "string" /\ stringIncludes(value.str, <<",">>)

\* typeof value === 'string' && (value.includes(',') || value.includes('"'))
needsQuotes(value) ==
    /\ value.type = "string"
    /\ stringIncludes(value.str, <<",">>) \/ stringIncludes(value.str, <<"\"">>)

\* The text of one cell of a data row.
csvCell(value) ==
    IF needsQuotes(value)
    THEN <<"\"">> \o doubleQuotes(value.str) \o <<"\"">>
    ELSE joinText(value)

\* columns.map(col => ...).join(',')
csvRow(row, cols) == join([c \in 1..Len(cols) |-> csvCell(get(row, cols[c]))], <<",">>)

\* The rows of the text: the header, then one row for each record.
csvLines(filteredData, cols) ==
    << join(cols, <<",">>) >>
        \o [r \in 1..Len(filteredData) |-> csvRow(filteredData[r], cols)]

csvContent(filteredData) == join(csvLines(filteredData, keys(filteredData[1])), <<"\n">>)

\* filteredData.length === 0
nothingToExport(filteredData) == Len(filteredData) = 0

\* The export that gives an empty result a file too.
csvFileAfter_always(filteredData) ==
    [kind |-> "csv", date |-> now,
     text |-> IF filteredData = <<>> THEN <<>> ELSE csvContent(filteredData)]

\* The file downloaded last, after an export of filteredData.
csvFileAfter(filteredData) ==
    IF nothingToExport(filteredData) THEN download
    ELSE [kind |-> "csv", date |-> now, text |-> csvContent(filteredData)]

\* A click on Export, which is shown when the page is not loading.
exportToCSV ==
    /\ ~Result_loading
    /\ LET filteredData == sortData(applyFilters(data, Result_filters), sortConfig)
       IN /\ alertMsg' = IF nothingToExport(filteredData) THEN "No data to export" ELSE ""
          /\ download' = csvFileAfter(filteredData)
    /\ UNCHANGED <<now, storeVars, routeVars, searchVars, sortEngine, pathname, searchParams,
                   data,
                   Result_filters, Result_loading, sortConfig, currentPage,
                   Result_fetches, fetched>>

\* The result page has mounted and its effect has run on the URL's query
\* string.
ResultInit ==
    /\ now = 1
    /\ localStorage = NoItem
    /\ alertMsg = ""
    /\ MyQuery_mounted = FALSE
    /\ MyQuery_savedQueries = <<>>
    /\ Save_mounted = FALSE
    /\ queryData = Null
    /\ name = <<>>
    /\ description = <<>>
    /\ selectedTags = <<>>
    /\ Save_savedQueries = <<>>
    /\ Route_savedQueries = <<>>
    /\ response = [status |-> 0]
    /\ activeTab = "Create Screen"
    /\ Search_savedQueries = <<>>
    /\ queryText = <<>>
    /\ loading = FALSE
    /\ Search_filters = <<>>
    /\ apiResults = Null
    /\ inFlight = {}
    /\ issued = 0
    /\ searchParams \in ParamInputs
    /\ data = <<>>
    /\ Result_filters = urlFilters(searchParams)
    /\ Result_loading = TRUE
    /\ sortConfig = Null
    /\ currentPage = 1
    /\ Result_fetches = { [seq |-> 1, outcome |-> Pending] }
    /\ fetched = 1
    /\ download = NoFile
    /\ sortEngine = "insertion"
    /\ pathname = "/query-result"

ResultNext ==
    \/ \E params \in ParamInputs : Result_navigate(params)
    \/ \E f \in Result_fetches, outcome \in FetchOutcomes : Result_fetchSettles(f, outcome)
    \/ \E f \in Result_fetches : fetchData_resume(f)
    \/ \E key \in sortableColumns : handleSort(key)
    \/ \E page \in pageControls : handlePageChange(page)

ResultSpec == ResultInit /\ [][ResultNext]_vars

----------------------------------------------------------------------------
(* Properties of the result view *)

\* C10: currentPage is 1 at the first pagination after the filters or the
\* sort configuration have changed; so whenever the pagination is shown
\* and totalPages >= 1, 1 <= currentPage <= totalPages.
C10_PageResetOnChange ==
    [][/\ (sortConfig' # sortConfig /\ ~Result_loading') => currentPage' = 1
       /\ (~Result_loading' /\ totalPages' >= 1) =>
             (1 <= currentPage' /\ currentPage' <= totalPages')]_vars

----------------------------------------------------------------------------
(* The filter evaluator, the sort engine and the paginator on their inputs *)

MaxEngineRecords == 41  \* the longest file the engines are given has this many records

\* Rows whose P/E column mixes numbers, a string and a blank, and whose
\* names hold a comma and a double quote; the last row has no P/E field.
MixedRows ==
    << << [key |-> Name, value |-> Str(<<"T", "C", "S">>)],
          [key |-> PE, value |-> Num(2)] >>,
       << [key |-> Name, value |-> Str(<<"a", ",", "b">>)],
          [key |-> PE, value |-> Num(10)] >>,
       << [key |-> Name, value |-> Str(<<"I", "n", "f", "y">>)],
          [key |-> PE, value |-> Str(<<"1", "a">>)] >>,
       << [key |-> Name, value |-> Str(<<"q", "\"", "c">>)],
          [key |-> PE, value |-> Null] >>,
       << [key |-> Name, value |-> Str(<<"w", "i", "p", "r", "o">>)] >> >>

\* The record sequences the engines are given: mixed rows, with and without
\* the row that lacks a field, and files of no record, of one, of whole
\* pages, and of whole pages and a last short one.
EngineDataSets ==
    { MixedRows, SubSeq(MixedRows, 1, 4) } \cup
    { DataSet(n) : n \in {0, 1, itemsPerPage, itemsPerPage + 1, 2 * itemsPerPage,
                           MaxEngineRecords} }

\* The query strings the FilterSet is built from.
EngineParams ==
    { <<>>,
      << [key |-> PE, value |-> <<>>] >>,
      << [key |-> Name, value |-> <<"t", "c">>] >>,
      << [key |-> PE, value |-> <<"1">>] >>,
      << [key |-> Name, value |-> <<>>], [key |-> PE, value |-> <<"1", "A">>] >>,
      << [key |-> Name, value |-> <<"i">>], [key |-> PE, value |-> <<"1">>] >>,
      << [key |-> <<"x">>, value |-> <<"1">>] >> }

\* The result page shows a dataset it has fetched, in one of the browsers.
EngineInit ==
    /\ now = 1
    /\ localStorage = NoItem
    /\ alertMsg = ""
    /\ MyQuery_mounted = FALSE
    /\ MyQuery_savedQueries = <<>>
    /\ Save_mounted = FALSE
    /\ queryData = Null
    /\ name = <<>>
    /\ description = <<>>
    /\ selectedTags = <<>>
    /\ Save_savedQueries = <<>>
    /\ Route_savedQueries = <<>>
    /\ response = [status |-> 0]
    /\ activeTab = "Create Screen"
    /\ Search_savedQueries = <<>>
    /\ queryText = <<>>
    /\ loading = FALSE
    /\ Search_filters = <<>>
    /\ apiResults = Null
    /\ inFlight = {}
    /\ issued = 0
    /\ searchParams \in EngineParams
    /\ data \in EngineDataSets
    /\ Result_filters = urlFilters(searchParams)
    /\ Result_loading = FALSE
    /\ sortConfig = Null
    /\ currentPage = 1
    /\ Result_fetches = {}
    /\ fetched = 1
    /\ download = NoFile
    /\ sortEngine \in SortEngines
    /\ pathname = "/query-result"

EngineNext ==
    \/ \E key \in sortableColumns : handleSort(key)
    \/ \E page \in pageControls : handlePageChange(page)

EngineSpec == EngineInit /\ [][EngineNext]_vars

----------------------------------------------------------------------------
(* The CSV exporter on its inputs *)

MaxCellLen == 2      \* the cells drawn from the alphabet have up to this many characters

CellAlphabet == {"a", ",", "\"", "\n"}

\* The strings of length n over the alphabet.
RECURSIVE cellsOfLen(_)
cellsOfLen(n) ==
    IF n = 0 THEN { <<>> }
    ELSE { Append(c, ch) : c \in cellsOfLen(n - 1), ch \in CellAlphabet }

\* The string cells a file can hold: the parser of the file turns an empty
\* cell into null.
CellInputs == UNION { cellsOfLen(n) : n \in 1..MaxCellLen }

Cap == <<"C", "a", "p", ",", "C", "r">>

\* Rows with a name that holds a comma and a double quote, and a column
\* whose name holds a comma.
QuotedRows ==
    << << [key |-> Name, value |-> Str(<<"a", ",", "b", "\"", "c">>)],
          [key |-> PE, value |-> Num(2)],
          [key |-> Cap, value |-> Num(7)] >>,
       << [key |-> Name, value |-> Str(<<"T", "C", "S">>)],
          [key |-> PE, value |-> Null] >> >>

\* The record sequences the exporter is given: files of one record with
\* one string cell, the mixed rows, the quoted rows, and files of more
\* than one page.
CsvDataSets ==
    { << << [key |-> Name, value |-> Str(c)], [key |-> PE, value |-> Num(1)] >> >>
          : c \in CellInputs }
    \cup { SubSeq(MixedRows, 1, 4), MixedRows, QuotedRows, DataSet(0), DataSet(MaxRecords) }

CsvParams ==
    { <<>>,
      << [key |-> PE, value |-> <<"1">>] >>,
      << [key |-> <<"x">>, value |-> <<"1">>] >> }

\* The result page shows a dataset it has fetched.
CsvInit ==
    /\ now = 1
    /\ localStorage = NoItem
    /\ alertMsg = ""
    /\ MyQuery_mounted = FALSE
    /\ MyQuery_savedQueries = <<>>
    /\ Save_mounted = FALSE
    /\ queryData = Null
    /\ name = <<>>
    /\ description = <<>>
    /\ selectedTags = <<>>
    /\ Save_savedQueries = <<>>
    /\ Route_savedQueries = <<>>
    /\ response = [status |-> 0]
    /\ activeTab = "Create Screen"
    /\ Search_savedQueries = <<>>
    /\ queryText = <<>>
    /\ loading = FALSE
    /\ Search_filters = <<>>
    /\ apiResults = Null
    /\ inFlight = {}
    /\ issued = 0
    /\ searchParams \in CsvParams
    /\ data \in CsvDataSets
    /\ Result_filters = urlFilters(searchParams)
    /\ Result_loading = FALSE
    /\ sortConfig = Null
    /\ currentPage = 1
    /\ Result_fetches = {}
    /\ fetched = 1
    /\ download = NoFile
    /\ sortEngine \in SortEngines
    /\ pathname = "/query-result"

CsvNext ==
    \/ \E key \in sortableColumns : handleSort(key)
    \/ \E page \in pageControls : handlePageChange(page)
    \/ exportToCSV

CsvSpec == CsvInit /\ [][CsvNext]_vars

----------------------------------------------------------------------------
(* Claims about the filter evaluator *)

\* t occurs in s as a run of consecutive characters.
occursIn(t, s) ==
    \E k \in 0..Len(s) :
        /\ k + Len(t) <= Len(s)
        /\ \A j \in 1..Len(t) : s[k + j] = t[j]

\* The text a record shows for a field: empty when the field is missing or
\* null.
shownText(record, key) ==
    LET v == get(record, key)
    IN IF v = Undefined \/ v = Null THEN <<>> ELSE valueToString(v)

\* The record meets every entry of f that has a value.
meetsAll(record, f) ==
    \A i \in 1..Len(f) :
        f[i].value # <<>> =>
            occursIn(toLowerCase(f[i].value), toLowerCase(shownText(record, f[i].key)))

\* The entries of f that constrain: those with a value.
constraints(f) == { i \in 1..Len(f) : f[i].value # <<>> }

\* C11: applyFilters returns exactly the records that hold, for every
\* entry of the FilterSet with a non-empty value, that value as a
\* case-insensitive substring of the text of the field (empty when the
\* field is missing or null), in their original order; a constraint on a
\* field no record has gives the empty result.
C11_FilterIsSubstringMatch ==
    ~Result_loading =>
        /\ applyFilters(data, Result_filters)
               = SelectSeq(data, LAMBDA record : meetsAll(record, Result_filters))
        /\ \A i \in constraints(Result_filters) :
               (\A r \in 1..Len(data) : get(data[r], Result_filters[i].key) = Undefined)
                   => applyFilters(data, Result_filters) = <<>>

\* A constraint in capitals has kept some records of a dataset and dropped
\* others, one of them for a null field.
C11_Witness ==
    /\ ~Result_loading
    /\ \E i \in constraints(Result_filters) :
           /\ toLowerCase(Result_filters[i].value) # Result_filters[i].value
           /\ \E r \in 1..Len(data) : get(data[r], Result_filters[i].key) = Null
    /\ Len(applyFilters(data, Result_filters)) \in 1..(Len(data) - 1)
    /\ sortConfig # Null

\* C12: a FilterSet whose values are all empty, or that has no keys,
\* filters nothing: the output of applyFilters is its input.
C12_EmptyFilterIsIdentity ==
    (~Result_loading /\ constraints(Result_filters) = {})
        => applyFilters(data, Result_filters) = data

\* A FilterSet with a key and no value has been applied to records, one of
\* which has a null in that field and one no such field.
C12_Witness ==
    /\ ~Result_loading
    /\ Result_filters # <<>>
    /\ constraints(Result_filters) = {}
    /\ \E r \in 1..Len(data) : get(data[r], Result_filters[1].key) = Null
    /\ \E r \in 1..Len(data) : get(data[r], Result_filters[1].key) = Undefined
    /\ applyFilters(data, Result_filters) = data
    /\ sortConfig # Null

----------------------------------------------------------------------------
(* Claims about the sort engine *)

isNumber(v) == v.type = "number"

\* The order of two values when the column is sorted ascending: by
\* magnitude for two numbers, else by their texts.
ascendingOrder(x, y) ==
    IF isNumber(x) /\ isNumber(y)
    THEN (IF x.num < y.num THEN -1 ELSE IF x.num > y.num THEN 1 ELSE 0)
    ELSE localeCompare(IF x \in {Undefined, Null} THEN <<>> ELSE valueToString(x),
                       IF y \in {Undefined, Null} THEN <<>> ELSE valueToString(y))

\* C13: with a SortConfig, sortData compares two records on the sort key
\* numerically when both values are numbers and by their string forms
\* otherwise (a missing value as the empty string), also when only one
\* is a number; the descending comparison is the negation of the
\* ascending one.
C13_ComparatorNumericElseText ==
    (~Result_loading /\ sortConfig # Null) =>
        \A i, j \in 1..Len(data) :
            LET x == get(data[i], sortConfig.key)
                y == get(data[j], sortConfig.key)
                asc == compare(data[i], data[j], [sortConfig EXCEPT !.direction = "asc"])
                desc == compare(data[i], data[j], [sortConfig EXCEPT !.direction = "desc"])
            IN /\ asc = ascendingOrder(x, y)
               /\ desc = -asc

\* A column is sorted descending that holds two numbers whose texts order
\* the other way, a number next to a string, and a null.
C13_Witness ==
    /\ ~Result_loading
    /\ sortConfig # Null
    /\ sortConfig.direction = "desc"
    /\ \E i, j, k, l \in 1..Len(data) :
           LET v(r) == get(data[r], sortConfig.key)
           IN /\ isNumber(v(i)) /\ isNumber(v(j))
              /\ v(i).num < v(j).num
              /\ localeCompare(valueToString(v(i)), valueToString(v(j))) > 0
              /\ v(k).type = "string"
              /\ v(l) = Null

\* No two records of d have values of the key that compare as equal.
noTies(d, key) ==
    \A i, j \in 1..Len(d) :
        i # j => ascendingOrder(get(d[i], key), get(d[j], key)) # 0

\* C14: when no two records tie on the sort key, also in a column that
\* mixes numbers, strings and missing values, re-sorting the ascending
\* result in descending order gives exactly the reverse of the ascending
\* sequence; so does the second click on the header, which sorts the
\* filtered records again.
C14_DescendingIsReverse ==
    (/\ ~Result_loading
     /\ sortConfig # Null
     /\ sortConfig.direction = "asc"
     /\ noTies(filteredAndSortedData, sortConfig.key))
        => LET desc == [sortConfig EXCEPT !.direction = "desc"]
           IN /\ sortData(filteredAndSortedData, desc) = Reverse(filteredAndSortedData)
              /\ sortData(applyFilters(data, Result_filters), desc)
                     = Reverse(filteredAndSortedData)

\* C15: without a SortConfig the sort engine returns the filtered records
\* in their input order, unchanged.
C15_NullSortKeepsOrder ==
    (~Result_loading /\ sortConfig = Null)
        => filteredAndSortedData = applyFilters(data, Result_filters)

\* The second page of an unsorted result is shown whose records are not in
\* the order of their names.
C15_Witness ==
    /\ ~Result_loading
    /\ sortConfig = Null
    /\ currentPage = 2
    /\ filteredAndSortedData = data
    /\ data # sorted(data, [key |-> Name, direction |-> "asc"])

----------------------------------------------------------------------------
(* Claims about the paginator *)

\* The slices of pages 1..n, one after the other.
RECURSIVE pagesUpTo(_)
pagesUpTo(n) == IF n = 0 THEN <<>> ELSE pagesUpTo(n - 1) \o pageSlice(n)

\* C16: with a page size of 20 the slices of pages 1..totalPages, put one
\* after the other, are the filtered-and-sorted sequence itself; every
\* page but the last has exactly 20 records and, when there are records,
\* the last page has between 1 and 20.
C16_PagesPartitionResult ==
    ~Result_loading =>
        /\ pagesUpTo(totalPages) = filteredAndSortedData
        /\ \A p \in 1..(totalPages - 1) : Len(pageSlice(p)) = 20
        /\ Len(filteredAndSortedData) > 0 => Len(pageSlice(totalPages)) \in 1..20
        /\ currentPage \in 1..totalPages => currentData = pageSlice(currentPage)

\* The third and last page of a sorted result of 41 records is shown, with
\* its one record.
C16_Witness ==
    /\ ~Result_loading
    /\ sortConfig # Null
    /\ totalPages = 3
    /\ currentPage = 3
    /\ Len(currentData) = 1
    /\ Len(pageSlice(2)) = 20

\* C17: totalPages is the number of filtered records divided by 20 and
\* rounded up, and is 0 exactly when there are none; with no records the
\* page-number controls are not rendered.
C17_TotalPagesIsCeiling ==
    ~Result_loading =>
        LET N == Len(filteredAndSortedData)
        IN /\ totalPages \in 0..N
           /\ 20 * totalPages >= N
           /\ 20 * (totalPages - 1) < N
           /\ totalPages = 0 <=> N = 0
           /\ N = 0 => pageControls = {}

\* A filter has left no record of a dataset that has records.
C17_Witness ==
    /\ ~Result_loading
    /\ Len(data) > 0
    /\ constraints(Result_filters) # {}
    /\ Len(filteredAndSortedData) = 0
    /\ totalPages = 0
    /\ pageControls = {}

----------------------------------------------------------------------------
(* Claims about the CSV exporter *)

\* The number of double quotes of text before index i.
quotesBefore(text, i) == Cardinality({ j \in 1..(i - 1) : text[j] = "\"" })

\* The places where ch stands outside a quoted cell.
unquotedAt(text, ch) ==
    { i \in 1..Len(text) : text[i] = ch /\ quotesBefore(text, i) % 2 = 0 }

\* The pieces of text between the places of the set at.
RECURSIVE splitAt(_, _)
splitAt(text, at) ==
    IF at = {} THEN <<text>>
    ELSE LET p == CHOOSE q \in at : \A o \in at : o <= q
         IN Append(splitAt(SubSeq(text, 1, p - 1), at \ {p}),
                   SubSeq(text, p + 1, Len(text)))

\* Each pair of double quotes becomes one.
RECURSIVE undouble(_)
undouble(chars) ==
    IF chars = <<>> THEN <<>>
    ELSE IF Len(chars) >= 2 /\ chars[1] = "\"" /\ chars[2] = "\""
         THEN <<"\"">> \o undouble(SubSeq(chars, 3, Len(chars)))
         ELSE <<chars[1]>> \o undouble(Tail(chars))

\* The value of a cell of a CSV text.
unescape(cell) ==
    IF Len(cell) >= 2 /\ cell[1] = "\"" /\ cell[Len(cell)] = "\""
    THEN undouble(SubSeq(cell, 2, Len(cell) - 1))
    ELSE cell

\* The rows of a CSV text, each the values of its cells.
parseCSV(text) ==
    LET lines == splitAt(text, unquotedAt(text, "\n"))
    IN [l \in 1..Len(lines) |->
           LET cells == splitAt(lines[l], unquotedAt(lines[l], ","))
           IN [c \in 1..Len(cells) |-> unescape(cells[c])]]

\* C18: a cell whose string form holds a comma or a double quote is
\* emitted wrapped in double quotes with every double quote inside it
\* doubled, so that CSV unescaping of the emitted cell gives the value
\* back; a cell that holds neither is emitted as its plain string form.
C18_QuotedCellsRoundTrip ==
    ~Result_loading =>
        \A r \in 1..Len(data) : \A c \in 1..Len(data[r]) :
            LET value == data[r][c].value
                form == stringForm(value)
                cell == csvCell(value)
            IN IF stringIncludes(form, <<",">>) \/ stringIncludes(form, <<"\"">>)
               THEN /\ Len(cell) >= Len(form) + 2
                    /\ cell[1] = "\""
                    /\ cell[Len(cell)] = "\""
                    /\ Len(cell) = Len(form) + 2 + quotesBefore(form, Len(form) + 1)
                    /\ unescape(cell) = form
               ELSE cell = form

\* The exported file of the quoted rows holds the cell a,b"c as "a,b""c".
C18_Witness ==
    /\ download # NoFile
    /\ \E r \in 1..Len(data) :
           /\ get(data[r], Name) = Str(<<"a", ",", "b", "\"", "c">>)
           /\ csvCell(get(data[r], Name))
                  = <<"\"", "a", ",", "b", "\"", "\"", "c", "\"">>
    /\ stringIncludes(download.text, <<"\"", "a", ",", "b", "\"", "\"", "c", "\"">>)

\* C19: an export of an empty filtered-and-sorted result is rejected with
\* a notice to the user: no CSV text is produced, nothing is downloaded
\* and the state of the result view stays as it is.
C19_EmptyExportRejected ==
    [][(~Result_loading /\ Len(filteredAndSortedData) = 0)
          => /\ alertMsg' = "No data to export"
             /\ download' = download
             /\ resultVars' = resultVars]_vars

\* The notice is shown for a dataset whose records the filter has all
\* dropped, and nothing has been downloaded.
C19_Witness ==
    /\ alertMsg = "No data to export"
    /\ Len(data) > 0
    /\ Len(filteredAndSortedData) = 0
    /\ download = NoFile

\* C20: whatever page is shown, the export of a result of N > 0 records
\* is a header row with the keys of the first record in their order and
\* then N rows, one per record in result order, each with one cell per
\* header column in header order; parsed as CSV the text has N + 1 rows
\* of as many cells as the header.
C20_ExportIsHeaderAndAllRows ==
    [][download' # download
          => LET result == filteredAndSortedData
                 header == keys(result[1])
                 rows == parseCSV(download'.text)
             IN /\ Len(rows) = Len(result) + 1
                /\ rows[1] = header
                /\ \A r \in 1..Len(rows) : Len(rows[r]) = Len(header)
                /\ \A r \in 1..Len(result) : \A c \in 1..Len(header) :
                       rows[r + 1][c] = stringForm(get(result[r], header[c]))]_vars

----------------------------------------------------------------------------
(* The pagination bar over results of many pages *)

MaxPagerRecords == 141  \* the longest file the paginated view is given has this many records

\* The files the data route answers with: of two pages, of seven and of
\* eight.
PagerDataSets ==
    { DataSet(MaxRecords), DataSet(MaxPagerRecords - itemsPerPage),
      DataSet(MaxPagerRecords) }

\* The query strings of the page's URL: those of the result view, and one
\* with a key and no value.
PagerParams == ParamInputs \cup { << [key |-> PE, value |-> <<>>] >> }

PagerOutcomes == { [kind |-> "ok", data |-> d] : d \in PagerDataSets }

\* The result page shows a file it has fetched, unsorted.
PagerInit ==
    /\ now = 1
    /\ localStorage = NoItem
    /\ alertMsg = ""
    /\ MyQuery_mounted = FALSE
    /\ MyQuery_savedQueries = <<>>
    /\ Save_mounted = FALSE
    /\ queryData = Null
    /\ name = <<>>
    /\ description = <<>>
    /\ selectedTags = <<>>
    /\ Save_savedQueries = <<>>
    /\ Route_savedQueries = <<>>
    /\ response = [status |-> 0]
    /\ activeTab = "Create Screen"
    /\ Search_savedQueries = <<>>
    /\ queryText = <<>>
    /\ loading = FALSE
    /\ Search_filters = <<>>
    /\ apiResults = Null
    /\ inFlight = {}
    /\ issued = 0
    /\ searchParams \in PagerParams
    /\ data \in PagerDataSets
    /\ Result_filters = urlFilters(searchParams)
    /\ Result_loading = FALSE
    /\ sortConfig = Null
    /\ currentPage = 1
    /\ Result_fetches = {}
    /\ fetched = 1
    /\ download = NoFile
    /\ sortEngine \in SortEngines
    /\ pathname = "/query-result"

PagerNext ==
    \/ \E page \in pageControls : handlePageChange(page)
    \/ \E params \in PagerParams : Result_navigate(params)
    \/ \E f \in Result_fetches, outcome \in PagerOutcomes : Result_fetchSettles(f, outcome)
    \/ \E f \in Result_fetches : fetchData_resume(f)

PagerSpec == PagerInit /\ [][PagerNext]_vars

----------------------------------------------------------------------------
(* The result page when the load of the dataset fails *)

\* The body the data route answers with from its catch block:
\* { error: 'Failed to fetch data' }.
ErrorBody ==
    << [key |-> <<"e", "r", "r", "o", "r">>,
        value |-> Str(<<"F", "a", "i", "l", "e", "d", " ", "t", "o", " ",
                        "f", "e", "t", "c", "h", " ", "d", "a", "t", "a">>)] >>

\* The response of status 500 the data route's catch block returns: the
\* fetch resolves and its body parses as JSON.
RouteFailure == [kind |-> "status500", data |-> ErrorBody]

\* How a fetch of /api/data ends when the route may fail too.
FailOutcomes == FetchOutcomes \cup { RouteFailure }

\* The result page shows a file it has fetched, maybe sorted and turned to
\* its second page.
FailInit ==
    /\ now = 1
    /\ localStorage = NoItem
    /\ alertMsg = ""
    /\ MyQuery_mounted = FALSE
    /\ MyQuery_savedQueries = <<>>
    /\ Save_mounted = FALSE
    /\ queryData = Null
    /\ name = <<>>
    /\ description = <<>>
    /\ selectedTags = <<>>
    /\ Save_savedQueries = <<>>
    /\ Route_savedQueries = <<>>
    /\ response = [status |-> 0]
    /\ activeTab = "Create Screen"
    /\ Search_savedQueries = <<>>
    /\ queryText = <<>>
    /\ loading = FALSE
    /\ Search_filters = <<>>
    /\ apiResults = Null
    /\ inFlight = {}
    /\ issued = 0
    /\ searchParams \in ParamInputs
    /\ data \in { DataSet(3), DataSet(MaxRecords) }
    /\ Result_filters = urlFilters(searchParams)
    /\ Result_loading = FALSE
    /\ sortConfig \in { Null, [key |-> Name, direction |-> "asc"],
                         [key |-> PE, direction |-> "desc"] }
    /\ Result_fetches = {}
    /\ fetched = 1
    /\ download = NoFile
    /\ sortEngine = "insertion"
    /\ currentPage \in (IF totalPages > 1 THEN 1..totalPages ELSE {1})
    /\ pathname = "/query-result"

FailNext ==
    \/ \E params \in ParamInputs : Result_navigate(params)
    \/ \E f \in Result_fetches, outcome \in FailOutcomes : Result_fetchSettles(f, outcome)
    \/ \E f \in Result_fetches : fetchData_resume(f)

FailSpec == FailInit /\ [][FailNext]_vars

----------------------------------------------------------------------------
(* The Save page opened with query data of any counts *)

\* The decoded 'data' parameter of the Save page's URL: a snapshot captured
\* over a dataset of 45 records of which the filter kept 3, or one whose
\* counts the URL's author wrote.
CountSnapshots(t) ==
    { Snapshot(<< [key |-> PE, value |-> <<"1", "2">>] >>, Null, t, 3, 45),
      Snapshot(<<>>, Null, t, 46, 45) }

CountParams == { JSONstringify(s) : s \in UNION { CountSnapshots(t) : t \in 1..now } }

CountsNext ==
    \/ Tick
    \/ MyQuery_mount
    \/ \E id \in IdsOf(MyQuery_savedQueries) : MyQuery_deleteQuery(id)
    \/ \E dataParam \in CountParams : Save_mount(dataParam)
    \/ saveQuery

CountsSpec == Init /\ [][CountsNext]_vars

----------------------------------------------------------------------------
(* The colors of tags *)

\* TAG_COLORS of Save.tsx and of SearchPage.tsx, the same five: pink, light
\* blue, light purple, light green, light orange.
TAG_COLORS == << "#fde4f8", "#dbf3f8", "#dde6fa", "#d9f4e5", "#fbeddc" >>

\* Array.prototype.indexOf: the place of x counted from 0, or -1.
indexOf(s, x) ==
    IF \E i \in 1..Len(s) : s[i] = x
    THEN (CHOOSE i \in 1..Len(s) : s[i] = x /\ \A j \in 1..(i - 1) : s[j] # x) - 1
    ELSE -1

\* TAG_COLORS[index % TAG_COLORS.length]; the remainder of a negative index
\* is negative, and no entry is there.
getTagColor(index) ==
    IF index < 0 THEN "undefined" ELSE TAG_COLORS[(index % Len(TAG_COLORS)) + 1]

\* The background of the chip of a selected tag on the Save page.
selectedTagColor(tag) == getTagColor(indexOf(PREDEFINED_TAGS, tag))

\* The backgrounds of the buttons of the available tags on the Save page,
\* the list being shown whole or cut to four.
availableTagColors(showAllTags) ==
    LET displayedTags == IF showAllTags THEN PREDEFINED_TAGS ELSE slice0(PREDEFINED_TAGS, 4)
    IN [i \in 1..Len(displayedTags) |-> getTagColor(i - 1)]

\* The backgrounds of the tags of a My Screens card: the first three tags
\* of the query, each colored by its place among them.
cardTagColors(query) ==
    [i \in 1..Len(slice0(query.tags, 3)) |-> TAG_COLORS[((i - 1) % Len(TAG_COLORS)) + 1]]

\* The tags the user clicks: the first of the predefined ones and the
\* seventh.
TagChoices == { "a1", "a7" }

\* The Save page with its tags, and the My Screens tab.
TagNext ==
    \/ \E dataParam \in CountParams : Save_mount(dataParam)
    \/ \E tag \in TagChoices : handleTagToggle(tag)
    \/ saveQuery
    \/ \E tab \in Tabs : handleTabClick(tab)

TagSpec == Init /\ [][TagNext]_vars

----------------------------------------------------------------------------
(* Running a saved query: from the lists to the result view *)

\* The two hexadecimal digits URLSearchParams writes after % for a character
\* that is not left as it is.
PercentCode ==
    [c \in {"/", "%", ",", "\"", "&", "=", "+", "\n"} |->
        CASE c = "/" -> <<"2", "F">>
          [] c = "%" -> <<"2", "5">>
          [] c = "," -> <<"2", "C">>
          [] c = "\"" -> <<"2", "2">>
          [] c = "&" -> <<"2", "6">>
          [] c = "=" -> <<"3", "D">>
          [] c = "+" -> <<"2", "B">>
          [] OTHER -> <<"0", "A">>]

\* The application/x-www-form-urlencoded form of a string: a space becomes
\* +, a character with a code %XX.
RECURSIVE formEncode(_)
formEncode(chars) ==
    IF chars = <<>> THEN <<>>
    ELSE (IF chars[1] = " " THEN <<"+">>
          ELSE IF chars[1] \in DOMAIN PercentCode
               THEN <<"%">> \o PercentCode[chars[1]]
               ELSE <<chars[1]>>) \o formEncode(Tail(chars))

\* The string an application/x-www-form-urlencoded text stands for.
RECURSIVE formDecode(_)
formDecode(text) ==
    IF text = <<>> THEN <<>>
    ELSE IF text[1] = "+" THEN <<" ">> \o formDecode(Tail(text))
    ELSE IF /\ text[1] = "%"
            /\ Len(text) >= 3
            /\ \E c \in DOMAIN PercentCode : PercentCode[c] = SubSeq(text, 2, 3)
         THEN <<CHOOSE c \in DOMAIN PercentCode : PercentCode[c] = SubSeq(text, 2, 3)>>
                  \o formDecode(SubSeq(text, 4, Len(text)))
         ELSE <<text[1]>> \o formDecode(Tail(text))

\* URLSearchParams.toString()
toQueryString(params) ==
    join([i \in 1..Len(params) |->
             formEncode(params[i].key) \o <<"=">> \o formEncode(params[i].value)],
         <<"&">>)

\* text.split(ch)
RECURSIVE split(_, _)
split(text, ch) ==
    IF \E i \in 1..Len(text) : text[i] = ch
    THEN LET i == CHOOSE k \in 1..Len(text) :
                      text[k] = ch /\ \A j \in 1..(k - 1) : text[j] # ch
         IN <<SubSeq(text, 1, i - 1)>> \o split(SubSeq(text, i + 1, Len(text)), ch)
    ELSE <<text>>

\* The pairs useSearchParams gives for the query string of the URL.
parseQuery(text) ==
    LET pairs == SelectSeq(split(text, "&"), LAMBDA pair : pair # <<>>)
    IN [i \in 1..Len(pairs) |->
           LET parts == split(pairs[i], "=")
           IN [key |-> formDecode(parts[1]),
               value |-> formDecode(join(Tail(parts), <<"=">>))]]

\* The parameters runQuery appends: the entries of the saved filters that
\* have a value.
runQueryParams(f) == SelectSeq(f, LAMBDA entry : entry.value # <<>>)

\* The component the application serves at a path: app/query-result is the
\* page of QueryResult.
pageAt(path) ==
    CASE path = "/query-result" -> "QueryResult"
      [] path = "/my-query" -> "MyQuery"
      [] path = "/save-query" -> "SaveQuery"
      [] path = "/" -> "SearchPage"
      [] OTHER -> "not-found"

\* The browser arrives at path with the query string search. A QueryResult
\* mounts with its initial state and its effect runs on the query string;
\* at a path that is not its page no QueryResult is shown.
arrive(path, search) ==
    /\ pathname' = path
    /\ IF pageAt(path) = "QueryResult"
       THEN /\ searchParams' = parseQuery(search)
            /\ Result_filters' = urlFilters(parseQuery(search))
            /\ data' = <<>>
            /\ sortConfig' = Null
            /\ currentPage' = 1
            /\ Result_loading' = TRUE
            /\ Result_fetches' = { [seq |-> fetched + 1, outcome |-> Pending] }
            /\ fetched' = fetched + 1
       ELSE UNCHANGED <<searchParams, Result_filters, data, sortConfig, currentPage,
                        Result_loading, Result_fetches, fetched>>

\* The user opens the result view by its URL.
openResultPage(params) ==
    /\ fetched < MaxFetches
    /\ arrive("/query-result", toQueryString(params))
    /\ alertMsg' = ""
    /\ UNCHANGED <<now, storeVars, routeVars, searchVars, download, sortEngine>>

\* MyQuery: runQuery(query) from the Run button of the i-th listed query;
\* the page is left.
MyQuery_runQuery(i) ==
    /\ MyQuery_mounted
    /\ i \in 1..Len(MyQuery_savedQueries)
    /\ arrive("/query-results",
              toQueryString(runQueryParams(MyQuery_savedQueries[i].filters)))
    /\ MyQuery_mounted' = FALSE
    /\ MyQuery_savedQueries' = <<>>
    /\ alertMsg' = ""
    /\ UNCHANGED <<now, localStorage, saveVars, routeVars, searchVars, download,
                   sortEngine>>

\* SearchPage: runQuery(query) from the i-th card of My Screens; the page
\* is unloaded.
Search_runQuery(i) ==
    /\ activeTab = "My Screens"
    /\ i \in 1..Len(Search_savedQueries)
    /\ arrive("/query-results",
              toQueryString(runQueryParams(Search_savedQueries[i].filters)))
    /\ activeTab' = "Create Screen"
    /\ Search_savedQueries' = <<>>
    /\ queryText' = <<>>
    /\ loading' = FALSE
    /\ Search_filters' = <<>>
    /\ apiResults' = Null
    /\ inFlight' = {}
    /\ alertMsg' = ""
    /\ UNCHANGED <<now, storeVars, routeVars, issued, download, sortEngine>>

\* Saved queries whose filters hold names with a slash, a space and a
\* percent sign, a value with a space, and an entry without a value.
ReplaySample ==
    JSONstringify(
     << Spread([id |-> toString(1)],
               Spread(Snapshot(<< [key |-> PE, value |-> <<"1", "2">>],
                                  [key |-> Name, value |-> <<>>],
                                  [key |-> ROCE, value |-> <<"1", " ", "5">>] >>,
                               Null, 1, 3, 45),
                      [name |-> <<"n">>, description |-> <<>>, tags |-> <<>>])),
        Spread([id |-> toString(2)],
               Spread(Snapshot(<< [key |-> Name, value |-> <<"t", "c">>] >>,
                               [key |-> ROCE, direction |-> "desc"], 2, 45, 45),
                      [name |-> <<"m">>, description |-> <<>>, tags |-> <<>>])) >>)

ReplayInit ==
    /\ now = 3
    /\ localStorage = ReplaySample
    /\ alertMsg = ""
    /\ MyQuery_mounted = FALSE
    /\ MyQuery_savedQueries = <<>>
    /\ Save_mounted = FALSE
    /\ queryData = Null
    /\ name = <<>>
    /\ description = <<>>
    /\ selectedTags = <<>>
    /\ Save_savedQueries = <<>>
    /\ Route_savedQueries = <<>>
    /\ response = [status |-> 0]
    /\ activeTab = "Create Screen"
    /\ Search_savedQueries = <<>>
    /\ queryText = <<>>
    /\ loading = FALSE
    /\ Search_filters = <<>>
    /\ apiResults = Null
    /\ inFlight = {}
    /\ issued = 0
    /\ searchParams = <<>>
    /\ data = <<>>
    /\ Result_filters = <<>>
    /\ Result_loading = FALSE
    /\ sortConfig = Null
    /\ currentPage = 1
    /\ Result_fetches = {}
    /\ fetched = 0
    /\ download = NoFile
    /\ sortEngine \in SortEngines
    /\ pathname = "/"

ReplayNext ==
    \/ MyQuery_mount
    \/ \E i \in 1..Len(MyQuery_savedQueries) : MyQuery_runQuery(i)
    \/ \E tab \in Tabs : handleTabClick(tab)
    \/ \E i \in 1..Len(Search_savedQueries) : Search_runQuery(i)
    \/ \E params \in ParamInputs \cup EngineParams : openResultPage(params)
    \/ \E f \in Result_fetches, outcome \in FetchOutcomes : Result_fetchSettles(f, outcome)
    \/ \E f \in Result_fetches : fetchData_resume(f)

ReplaySpec == ReplayInit /\ [][ReplayNext]_vars

----------------------------------------------------------------------------
(* Claims about the counts and the replay of a saved query *)

\* C21: every entry of the persisted collection has resultCount <=
\* totalCount, and the two counts of an entry stay as they were when it was
\* created, whatever query data the Save page was opened with: after every
\* step each entry is an entry that was there before, with its counts, or
\* the entry just created from the query data.
C21_CountsOrderedAndFrozen ==
    [][\A i \in 1..Len(Persisted') :
          LET q == Persisted'[i]
          IN /\ q.resultCount <= q.totalCount
             /\ \/ \E j \in 1..Len(Persisted) :
                       /\ Persisted[j].id = q.id
                       /\ Persisted[j].resultCount = q.resultCount
                       /\ Persisted[j].totalCount = q.totalCount
                \/ /\ i = Len(Persisted')
                   /\ queryData # Null
                   /\ q.resultCount = queryData.resultCount
                   /\ q.totalCount = queryData.totalCount]_vars

\* C22: running a saved query brings up the result view with the FilterSet
\* rebuilt from the query string runQuery produced, which is the saved
\* FilterSet without its entries of empty value, so that the replay keeps
\* of a dataset the records the saved FilterSet keeps.
C22_ReplayRebuildsFilters ==
    [][\A i \in 1..Len(MyQuery_savedQueries \o Search_savedQueries) :
          LET saved == (MyQuery_savedQueries \o Search_savedQueries)[i].filters
          IN (MyQuery_runQuery(i) \/ Search_runQuery(i - Len(MyQuery_savedQueries)))
                 => /\ pageAt(pathname') = "QueryResult"
                    /\ Result_filters' = SelectSeq(saved, LAMBDA e : e.value # <<>>)
                    /\ \A d \in DataSets \cup EngineDataSets :
                           applyFilters(d, Result_filters') = applyFilters(d, saved)]_vars

----------------------------------------------------------------------------
(* Claims about the pagination bar *)

\* The integers from a to b, in order.
range(a, b) == [i \in 1..(b - a + 1) |-> a + i - 1]

windowPages(tp, cp) == { pageNumbers(tp, cp)[n] : n \in 1..Min(5, tp) }

\* C24: for every totalPages and every currentPage in 1..totalPages, the
\* ellipsis followed by the link to the last page is rendered exactly
\* when the page-number window does not hold the final page.
C24_LastLinkIffWindowShort ==
    (~Result_loading /\ currentPage \in 1..totalPages) =>
        ((totalPages > 1 /\ lastPageLink(totalPages, currentPage))
            <=> totalPages \notin windowPages(totalPages, currentPage))

\* The window of a page near the end of eight pages holds the last page
\* and no link is rendered, after the link has led there.
C24_Witness ==
    /\ ~Result_loading
    /\ totalPages = 8
    /\ currentPage = 6
    /\ 8 \in windowPages(totalPages, currentPage)
    /\ ~lastPageLink(totalPages, currentPage)
    /\ lastPageLink(totalPages, 5)

\* C30: whenever the page controls are rendered, for every value of
\* currentPage, also one left beyond totalPages by a result that shrank,
\* the page numbers shown are distinct consecutive integers within
\* 1..totalPages; they include currentPage when it is within
\* 1..totalPages; and every control, a page number, the last-page link or
\* the next button, sets currentPage to a value within 1..totalPages.
C30_ControlsStayInRange ==
    (~Result_loading /\ totalPages > 1) =>
        LET window == pageNumbers(totalPages, currentPage)
        IN /\ \A n \in 1..Len(window) : window[n] \in 1..totalPages
           /\ \A n \in 1..(Len(window) - 1) : window[n + 1] = window[n] + 1
           /\ currentPage \in 1..totalPages
                  => currentPage \in windowPages(totalPages, currentPage)
           /\ pageControls \subseteq 1..totalPages
           /\ \A page \in pageControls : ENABLED handlePageChange(page)

\* The eighth page was shown when a shorter file left seven pages: the
\* window holds the last five of them.
C30_Witness ==
    /\ ~Result_loading
    /\ totalPages = 7
    /\ currentPage = 8
    /\ pageNumbers(totalPages, currentPage) = <<3, 4, 5, 6, 7>>

----------------------------------------------------------------------------
(* Claims about a failed load of the dataset *)

RejectedLoadKeepsState ==
    [][\A f \in Result_fetches :
          (fetchData_resume(f) /\ f.outcome.kind = "rejected")
              => /\ ~Result_loading'
                 /\ data' = data
                 /\ Result_filters' = Result_filters
                 /\ sortConfig' = sortConfig
                 /\ currentPage' = currentPage]_vars

----------------------------------------------------------------------------
(* Claims about the timestamp of a saved query *)

\* The place of a saved query in the store, whose entries are kept in the
\* order of their creation.
placeOf(q) == CHOOSE k \in 1..Len(Persisted) :
                 Persisted[k] = q /\ \A m \in (k + 1)..Len(Persisted) : Persisted[m] # q

\* C26: the timestamp of a new saved query is the instant of the create
\* call, so the My Screens tab, which orders the store by timestamp
\* descending and keeps nine, lists the entries created most recently, the
\* most recent first.
C26_TimestampIsCreationInstant ==
    [][/\ (saveQuery /\ localStorage' # localStorage)
            => Last(Persisted').timestamp = now
       /\ (handleTabClick("My Screens") /\ activeTab # "My Screens")
            => \A i, j \in 1..Len(Search_savedQueries') :
                  i < j => \/ placeOf(Search_savedQueries'[i]) >= placeOf(Search_savedQueries'[j])
                           \/ Search_savedQueries'[i].timestamp
                                  = Search_savedQueries'[j].timestamp]_vars

\* A later creation with an earlier timestamp is listed after an earlier one.
StaleTimestampListedLast ==
    [][(handleTabClick("My Screens") /\ activeTab # "My Screens")
            => \A i, j \in 1..Len(Search_savedQueries') :
                  i < j => \/ placeOf(Search_savedQueries'[i]) >= placeOf(Search_savedQueries'[j])
                           \/ Search_savedQueries'[i].timestamp
                                  = Search_savedQueries'[j].timestamp]_vars

----------------------------------------------------------------------------
(* Claims about the colors of tags *)

\* The entry of the palette at the place of the tag in the predefined
\* tags, modulo the size of the palette.
paletteOf(tag) == TAG_COLORS[(indexOf(PREDEFINED_TAGS, tag) % Len(TAG_COLORS)) + 1]

\* C27: the color of a tag is the palette entry at the tag's place in the
\* predefined tags modulo the palette's size, so a tag has the same color
\* on the Save page and on the cards of My Screens, whatever its place
\* among the tags selected.
C27_TagColorFollowsTag ==
    /\ \A i \in 1..Len(selectedTags) :
           selectedTagColor(selectedTags[i]) = paletteOf(selectedTags[i])
    /\ \A all \in BOOLEAN : \A i \in DOMAIN availableTagColors(all) :
           availableTagColors(all)[i] = paletteOf(PREDEFINED_TAGS[i])
    /\ \A k \in 1..Len(Search_savedQueries) :
           \A i \in DOMAIN cardTagColors(Search_savedQueries[k]) :
              cardTagColors(Search_savedQueries[k])[i]
                  = paletteOf(Search_savedQueries[k].tags[i])

\* The Save page alone colors every tag by the tag.
SavePageColorsByTag ==
    /\ \A i \in 1..Len(selectedTags) :
           selectedTagColor(selectedTags[i]) = paletteOf(selectedTags[i])
    /\ \A all \in BOOLEAN : \A i \in DOMAIN availableTagColors(all) :
           availableTagColors(all)[i] = paletteOf(PREDEFINED_TAGS[i])

----------------------------------------------------------------------------
(* Claims about the consistency of the comparison *)

MaxPermuted == 4  \* the records of a result no longer than this are tried in every order

\* The orders the records of d can arrive in: every one of a short d, else
\* d and its reverse.
arrangements(d) ==
    IF Len(d) <= MaxPermuted
    THEN { [i \in 1..Len(d) |-> d[p[i]]] :
             p \in { q \in [1..Len(d) -> 1..Len(d)] :
                       \A i, j \in 1..Len(d) : i # j => q[i] # q[j] } }
    ELSE { d, Reverse(d) }

\* compare(a, b) and compare(b, a) are opposite on the records of d.
antisymmetric(d, sc) ==
    \A i, j \in 1..Len(d) : compare(d[i], d[j], sc) = -compare(d[j], d[i], sc)

\* The records of d that compare as before one another do so in chains.
transitive(d, sc) ==
    \A i, j, k \in 1..Len(d) :
        (compare(d[i], d[j], sc) < 0 /\ compare(d[j], d[k], sc) < 0)
            => compare(d[i], d[k], sc) < 0

\* C28: the comparison sortData sorts with is a consistent ordering,
\* antisymmetric and transitive also in a column that mixes numbers,
\* strings and missing values, so the sorted result of records no two of
\* which tie is the same in whatever order the records arrive.
C28_ComparisonConsistent ==
    (~Result_loading /\ sortConfig # Null) =>
        LET d == applyFilters(data, Result_filters)
        IN /\ antisymmetric(d, sortConfig)
           /\ transitive(d, sortConfig)
           /\ noTies(d, sortConfig.key)
                 => \A e \in arrangements(d) : sortData(e, sortConfig) = sortData(d, sortConfig)

\* The half of C28 that holds: the comparison is antisymmetric.
ComparisonAntisymmetric ==
    (~Result_loading /\ sortConfig # Null)
        => antisymmetric(applyFilters(data, Result_filters), sortConfig)

\* The comparison is transitive.
ComparisonTransitive ==
    (~Result_loading /\ sortConfig # Null)
        => transitive(applyFilters(data, Result_filters), sortConfig)

\* The sorted result does not depend on the order the records arrive in.
SortedWhateverTheOrder ==
    (~Result_loading /\ sortConfig # Null) =>
        LET d == applyFilters(data, Result_filters)
        IN noTies(d, sortConfig.key)
              => \A e \in arrangements(d) : sortData(e, sortConfig) = sortData(d, sortConfig)

----------------------------------------------------------------------------
(* Claims about the loading flag of the search page *)

\* C29: in the search page loading is true exactly while a screening
\* request is in flight: it becomes true when a request is issued, stays
\* true until that request has settled and its continuation has run, and
\* is false once every request issued has done so.
C29_LoadingIffInFlight == loading <=> inFlight # {}

\* Loading is never true without a request in flight.
LoadingOnlyInFlight == loading => inFlight # {}

====
